---- MODULE Spec2Model ----
(***************************************************************************)
(* Verification model of the multi-agent orchestrator:                     *)
(*   - the tool-recursion loop of BedrockLLMAgent   (specification SpecLoop)*)
(*   - MultiAgentOrchestrator.route_request          (specification Spec)   *)
(*   - SupervisorAgent fan-out (send_messages)       (specification SpecSup)*)
(*   - registry, classifier, supervisor construction (specification        *)
(*     SpecSetup)                                                          *)
(*   - InMemoryChatStorage                       (specification SpecStorage)*)
(*   - process_request of the agent classes        (specification SpecAgents)*)
(*   - the supervisor's tool handler                (specification SpecTools)*)
(*   - handle_streaming_response, event by event   (specification SpecStream)*)
(*   - the supervisor's memory digest              (specification SpecPrompt)*)
(*   - two overlapping supervisor calls           (specification SpecOverlap)*)
(*   - ChainAgent                                   (specification SpecChain)*)
(* The components share one variable tuple; each specification leaves the  *)
(* variables of the other components unchanged.                            *)
(***************************************************************************)
EXTENDS Integers, Sequences, FiniteSets, TLC

\* ------------------------------------------------------------------------
\* Bounds of the model
\* ------------------------------------------------------------------------
MaxBudget == 3
MaxHist == 1
MaxChunks == 2
MaxRequests == 2
MaxPairs == 1
MaxSupCalls == 1
MaxEntries == 2
MaxTasks == 2
MaxSetupCalls == 4
MaxStorageCalls == 3
MaxChain == 3
MaxBlocks == 3
MaxEvents == 5
MaxTurns == 4
MaxSupRounds == 2

\* ------------------------------------------------------------------------
\* Program constants
\* ------------------------------------------------------------------------
DefaultMaxRecursions == 20

\* Config defaults (the error texts are kept by name)
CLASSIFICATION_ERROR_MESSAGE == "CLASSIFICATION_ERROR_MESSAGE"
NO_SELECTED_AGENT_MESSAGE == "NO_SELECTED_AGENT_MESSAGE"
GENERAL_ROUTING_ERROR_MSG_MESSAGE == "GENERAL_ROUTING_ERROR_MSG_MESSAGE"

VARIABLES
    \* ---- ChatStorage
    store,                \* (user, session, agent id) -> stored messages
    appended,             \* history: every message appended under a key
    \* ---- MultiAgentOrchestrator
    default_agent,        \* self.default_agent
    use_default,          \* config.USE_DEFAULT_AGENT_IF_NONE_IDENTIFIED
    default_params,       \* the shared default additional_params = {}:
                          \* TRUE once it carries the key error_type
    rq,                   \* the route_request calls
    \* ---- SupervisorAgent
    sup_user_id,          \* self.user_id
    sup_session_id,       \* self.session_id
    sup,                  \* the process_request calls on the supervisor
    tasks,                \* per call: the tasks of its send_messages
    next_task,            \* number of sub-dispatches started so far
    \* ---- registry, classifier and supervisor construction
    agents,               \* MultiAgentOrchestrator.agents: id -> agent
    classifier,           \* MultiAgentOrchestrator.classifier
    classifier_agents,    \* per classifier: the agents it was given
    lead_tool_config,     \* tool_config of the agents a supervisor may wrap
    built,                \* the agents a supervisor has been constructed over
    setup,                \* the latest configuration call and its outcome
    built_team,           \* per constructed supervisor: its team
    \* ---- calls on single objects
    storage_calls,        \* the calls made on one InMemoryChatStorage
    agent_call,           \* the latest process_request call on an agent
    tool_round,           \* the latest supervisor_tool_handler call
    stream_call,          \* one handle_streaming_response call, event by event
    prompt_call,          \* a session's turns and the supervisor's digest of them
    overlap,              \* two process_request calls on one SupervisorAgent
    chain_call,           \* a ChainAgent and one process_request call on it
    \* ---- BedrockLLMAgent instance and one process_request call on it
    agent_streaming,      \* self.streaming
    tool_config,          \* self.tool_config: NoToolConfig or a record
    loop_pc,              \* position of the call
    conversation,         \* the running conversation (list, mutated in place)
    command,              \* command['messages'], a snapshot of the conversation
    max_recursions,       \* the local budget counter
    continue_with_tools,  \* the local flag
    llm_response,         \* llm_response / final_response
    sent,                 \* the message lists handed to the model, one per call
    tool_runs,            \* the replies handed to _process_tool_block, in order
    stream_out,           \* chunks yielded by stream_generator()
    loop_result           \* value returned (single) or last final chunk (stream)

loopVars == <<agent_streaming, tool_config, loop_pc, conversation, command,
              max_recursions, continue_with_tools, llm_response, sent,
              tool_runs, stream_out, loop_result>>

storeVars == <<store, appended>>

orchVars == <<default_agent, use_default, default_params, rq>>

supVars == <<sup_user_id, sup_session_id, sup, tasks, next_task>>

setupVars == <<agents, classifier, classifier_agents, lead_tool_config,
               built, setup, built_team>>

partVars == <<stream_call, prompt_call, overlap, chain_call>>

unitVars == <<storage_calls, agent_call, tool_round, partVars>>

vars == <<storeVars, orchVars, supVars, setupVars, unitVars, loopVars>>

\* ========================================================================
\* BedrockLLMAgent: the tool-recursion loop
\* ========================================================================

\* self.tool_config: unset (None), or a dict that may carry toolMaxRecursions
NoToolConfig == [set |-> FALSE, hasMax |-> FALSE, toolMaxRecursions |-> 0]
Budgets == (0..MaxBudget) \cup {DefaultMaxRecursions}
ToolConfigs ==
    {NoToolConfig}
    \cup {[set |-> TRUE, hasMax |-> FALSE, toolMaxRecursions |-> 0]}
    \cup [set : {TRUE}, hasMax : {TRUE}, toolMaxRecursions : Budgets]

\* _get_max_recursions
GetMaxRecursions(tc) ==
    IF ~tc.set THEN 1
    ELSE IF ~tc.hasMax THEN DefaultMaxRecursions
    ELSE tc.toolMaxRecursions

\* llm_response = None
NoReply == [kind |-> "none", n |-> 0, toolUse |-> FALSE]

HistMsg(i) == [kind |-> "history", n |-> i, toolUse |-> FALSE]
UserMsg == [kind |-> "user", n |-> 0, toolUse |-> FALSE]
Reply(i, t) == [kind |-> "reply", n |-> i, toolUse |-> t]
ToolResponse(i) == [kind |-> "toolResult", n |-> i, toolUse |-> FALSE]
TextChunk(i) == [final |-> FALSE, n |-> i]
FinalChunk(i) == [final |-> TRUE, n |-> i]

\* _prepare_conversation: [*chat_history, user_message]
PrepareConversation(h) == [i \in 1..h |-> HistMsg(i)] \o <<UserMsg>>

\* (mutant) the scan never finds a toolUse block
HasToolUseNever(m) == FALSE

\* any('toolUse' in content for content in llm_response.content)
HasToolUse(m) == m.toolUse

\* (mutant) the budget is left as it is
DecrementSkipped(n) == n

\* max_recursions -= 1
Decrement(n) == n - 1

\* (mutant) the streaming loop never finds a toolUse block
HasToolUseStreamedNever(m) == FALSE

\* stream_generator: any('toolUse' in content for content in
\* final_response.content)
HasToolUseStreamed(m) == m.toolUse

\* (mutant) the request keeps the messages it was built with
RefreshMessagesSkipped(cmd, conv) == cmd

\* command['messages'] = conversation_to_dict(conversation): the request
\* now carries a copy of the whole running conversation
RefreshMessages(cmd, conv) == conv

\* no call in progress on the agent
LoopIdle ==
    /\ loop_pc = "idle"
    /\ conversation = <<>>
    /\ command = <<>>
    /\ max_recursions = 0
    /\ continue_with_tools = FALSE
    /\ llm_response = NoReply
    /\ sent = <<>>
    /\ tool_runs = <<>>
    /\ stream_out = <<>>
    /\ loop_result = NoReply

\* BedrockLLMAgent.__init__: streaming and tool_config come from the options
LoopInit ==
    /\ agent_streaming \in BOOLEAN
    /\ tool_config \in ToolConfigs
    /\ LoopIdle

\* process_request -> _process_with_strategy -> start of the loop
ProcessRequest ==
    /\ loop_pc \in {"idle", "done", "raised"}
    /\ \E h \in 0..MaxHist :
         /\ conversation' = PrepareConversation(h)
         /\ command' = PrepareConversation(h)
    /\ max_recursions' = GetMaxRecursions(tool_config)
    /\ continue_with_tools' = TRUE
    /\ llm_response' = NoReply
    /\ sent' = <<>>
    /\ tool_runs' = <<>>
    /\ stream_out' = <<>>
    /\ loop_result' = NoReply
    /\ loop_pc' = "loop"
    /\ UNCHANGED <<agent_streaming, tool_config>>
    /\ UNCHANGED <<storeVars, orchVars, supVars, setupVars, unitVars>>

\* the chunks one handle_streaming_response call yields for round i
Chunks(i, k) == [j \in 1..k |-> TextChunk(i)] \o <<FinalChunk(i)>>

\* number of text chunks yielded so far (capped by MaxChunks per call)
TextCount(s) == Cardinality({j \in 1..Len(s) : ~s[j].final})

\* One pass of the while body up to the tool test:
\* the model call, conversation.append(reply), the toolUse scan and,
\* for a tool-free reply, continue_with_tools = False; max_recursions -= 1
ModelRound ==
    /\ loop_pc = "loop"
    /\ continue_with_tools /\ max_recursions > 0
    /\ \E t \in BOOLEAN, k \in 0..(MaxChunks - TextCount(stream_out)) :
         LET r == Reply(Len(sent) + 1, t) IN
         /\ sent' = Append(sent, command)
         /\ llm_response' = r
         /\ conversation' = Append(conversation, r)
         /\ stream_out' = IF agent_streaming
                          THEN stream_out \o Chunks(Len(sent) + 1, k)
                          ELSE stream_out
         /\ IF (IF agent_streaming THEN HasToolUseStreamed(r) ELSE HasToolUse(r))
            THEN /\ loop_pc' = "tool"
                 /\ UNCHANGED <<continue_with_tools, max_recursions>>
            ELSE /\ continue_with_tools' = FALSE
                 /\ max_recursions' = Decrement(max_recursions)
                 /\ loop_pc' = "loop"
    /\ UNCHANGED <<agent_streaming, tool_config, command, tool_runs, loop_result>>
    /\ UNCHANGED <<storeVars, orchVars, supVars, setupVars, unitVars>>

\* handle_single_response / handle_streaming_response re-raise a model error
ModelRaises ==
    /\ loop_pc = "loop"
    /\ continue_with_tools /\ max_recursions > 0
    /\ sent' = Append(sent, command)
    /\ loop_pc' = "raised"
    /\ UNCHANGED <<agent_streaming, tool_config, conversation, command,
                   max_recursions, continue_with_tools, llm_response,
                   tool_runs, stream_out, loop_result>>
    /\ UNCHANGED <<storeVars, orchVars, supVars, setupVars, unitVars>>

\* _process_tool_block returned: conversation.append(tool_response),
\* command['messages'] = conversation_to_dict(conversation), max_recursions -= 1
ToolRound ==
    /\ loop_pc = "tool"
    /\ tool_config.set
    /\ tool_runs' = Append(tool_runs, llm_response)
    /\ conversation' = Append(conversation, ToolResponse(llm_response.n))
    /\ command' = RefreshMessages(command, conversation')
    /\ max_recursions' = Decrement(max_recursions)
    /\ loop_pc' = "loop"
    /\ UNCHANGED <<agent_streaming, tool_config, continue_with_tools,
                   llm_response, sent, stream_out, loop_result>>
    /\ UNCHANGED <<storeVars, orchVars, supVars, setupVars, unitVars>>

\* _process_tool_block raised: the handler failed, or self.tool_config is
\* None ('useToolHandler' in None is a TypeError)
ToolRaises ==
    /\ loop_pc = "tool"
    /\ tool_runs' = IF ~tool_config.set THEN tool_runs
                    ELSE Append(tool_runs, llm_response)
    /\ loop_pc' = "raised"
    /\ UNCHANGED <<agent_streaming, tool_config, conversation, command,
                   max_recursions, continue_with_tools, llm_response, sent,
                   stream_out, loop_result>>
    /\ UNCHANGED <<storeVars, orchVars, supVars, setupVars, unitVars>>

\* the while condition is false: return llm_response / end of the stream
LoopExit ==
    /\ loop_pc = "loop"
    /\ ~(continue_with_tools /\ max_recursions > 0)
    /\ loop_result' = llm_response
    /\ loop_pc' = "done"
    /\ UNCHANGED <<agent_streaming, tool_config, conversation, command,
                   max_recursions, continue_with_tools, llm_response, sent,
                   tool_runs, stream_out>>
    /\ UNCHANGED <<storeVars, orchVars, supVars, setupVars, unitVars>>

\* ========================================================================
\* ChatStorage (the storage module itself is not part of the sources; the
\* store follows the contract: append, then trim to max_pairs whole pairs)
\* ========================================================================
Users == {"u1"}
Sessions == {"s1", "s2"}
AgentIds == {"default", "tech", "quiet"}
\* the supervisor's team, in declaration order (Agent.name), and their ids
Team == <<"A", "B", "C">>
MemberId(name) == CASE name = "A" -> "a" [] name = "B" -> "b" [] name = "C" -> "c"
MemberIds == {MemberId(Team[i]) : i \in 1..Len(Team)}
Keys == Users \X Sessions \X (AgentIds \cup MemberIds)

USER == "user"
ASSISTANT == "assistant"

\* a stored ConversationMessage: its role and the call that produced it
Msg(role, by, id) == [role |-> role, by |-> by, id |-> id]

\* max_message_pairs not supplied by the caller
NoLimit == -1

\* number of pairs held by a stored sequence
PairCount(seq) == Len(seq) \div 2

\* remove the oldest pairs until at most maxp pairs are left
Trim(seq, maxp) ==
    IF maxp = NoLimit \/ PairCount(seq) <= maxp THEN seq
    ELSE SubSeq(seq, 2 * (PairCount(seq) - maxp) + 1, Len(seq))

\* save_chat_message(user_id, session_id, agent_id, message, max_message_pairs)
SaveChatMessage(st, key, msg, maxp) ==
    [st EXCEPT ![key] = Trim(Append(@, msg), maxp)]

StoreInit ==
    /\ store = [k \in Keys |-> <<>>]
    /\ appended = [k \in Keys |-> <<>>]

\* ========================================================================
\* MultiAgentOrchestrator
\* ========================================================================
Reqs == 1..MaxRequests

\* Agent.name, Agent.save_chat and the kind of result process_request gives
AgentName(a) == CASE a = "default" -> "DEFAULT"
                  [] a = "tech" -> "Tech"
                  [] a = "quiet" -> "Quiet"
AgentSaveChat(a) == a # "quiet"
AgentStreaming(a) == a = "default"

NoAgent == "none"
NO_AGENT_SELECTED == "no_agent_selected"
NO_AGENT_NAME == "No Agent"

\* config.MAX_MESSAGE_PAIRS_PER_AGENT
MAX_MESSAGE_PAIRS_PER_AGENT == MaxPairs

IdleRequest ==
    [pc |-> "idle", session |-> "s1", own_params |-> FALSE,
     params_written |-> FALSE, error_type |-> FALSE,
     classified |-> "none", selected |-> NoAgent, confidence |-> -1,
     dispatched |-> <<>>, result |-> "none", saves |-> <<>>,
     output |-> "none", agent_id |-> "none", agent_name |-> "none",
     streaming |-> FALSE]

\* a call whose envelope has been handed over and is no longer looked at
ClosedRequest == [IdleRequest EXCEPT !.pc = "closed"]

\* the call r ends with the record rec; only the latest envelope is kept
Deliver(r, rec) ==
    [q \in Reqs |-> IF q = r THEN rec
                    ELSE IF rq[q].pc = "returned" THEN ClosedRequest
                    ELSE rq[q]]

OrchIdle ==
    /\ default_agent = "default"
    /\ default_params = FALSE
    /\ rq = [r \in Reqs |-> IdleRequest]

\* MultiAgentOrchestrator.__init__
OrchInit ==
    /\ use_default \in BOOLEAN
    /\ OrchIdle

OrchOff ==
    /\ use_default = TRUE
    /\ OrchIdle

\* the orchestrator steps leave the agent loop and the supervisor alone
OrchFrame == UNCHANGED <<loopVars, supVars, setupVars, unitVars>>

\* set_default_agent
SetDefaultAgent ==
    /\ \E a \in AgentIds : default_agent' = a
    /\ UNCHANGED <<use_default, default_params, rq, storeVars>>
    /\ OrchFrame

\* route_request is entered by call r for session s (calls are numbered in
\* the order in which they are made); up to the classifier's answer the call
\* only reads: execution_times.clear(), fetch_all_chats, classify
Entered(r) ==
    /\ rq[r].pc = "idle"
    /\ \A q \in 1..(r - 1) : rq[q].pc # "idle"

\* the session_id argument of call r. Session ids are opaque to the
\* orchestrator and interchangeable: the first call's session is named s1, a
\* later call is in the same session or in another one
SessionsFor(r) == IF r = 1 THEN {"s1"} ELSE Sessions

\* (mutant) the failure is not tagged in additional_params
CreateMetadataUntagged(sel) ==
    IF sel = NoAgent
    THEN [agent_id |-> NO_AGENT_SELECTED, agent_name |-> NO_AGENT_NAME,
          error |-> FALSE]
    ELSE [agent_id |-> sel, agent_name |-> AgentName(sel), error |-> FALSE]

\* (mutant) the metadata never names the selected agent
CreateMetadataAnonymous(sel) ==
    [agent_id |-> NO_AGENT_SELECTED, agent_name |-> NO_AGENT_NAME,
     error |-> sel = NoAgent]

\* create_metadata: sel is the selected agent of the classifier result, or
\* NoAgent when there is no result or no selected agent; error tells whether
\* additional_params['error_type'] is set to 'classification_failed'
CreateMetadata(sel) ==
    IF sel = NoAgent
    THEN [agent_id |-> NO_AGENT_SELECTED, agent_name |-> NO_AGENT_NAME,
          error |-> TRUE]
    ELSE [agent_id |-> sel, agent_name |-> AgentName(sel), error |-> FALSE]

\* return AgentResponse(metadata, output, streaming=False).
\* own tells whether the caller passed a mapping of its own as
\* additional_params (TRUE) or left the shared default {} (FALSE); the
\* metadata holds that very mapping, so error_type is what the mapping
\* carries once create_metadata has written to it
Returned(call, md, out, own) ==
    [call EXCEPT !.pc = "returned", !.output = out,
                  !.agent_id = md.agent_id, !.agent_name = md.agent_name,
                  !.own_params = own,
                  !.params_written = md.error,
                  !.error_type = IF own THEN md.error
                                 ELSE (default_params \/ md.error),
                  !.streaming = FALSE]

\* the shared default mapping after create_metadata has run
DefaultParamsAfter(md, own) == default_params \/ (~own /\ md.error)

\* (mutant) the fallback names the built-in default agent, not the current one
GetFallbackResultBuiltIn == [selected_agent |-> "default", confidence |-> 0]

\* get_fallback_result
GetFallbackResult == [selected_agent |-> default_agent, confidence |-> 0]

\* route_request, classifier.classify raised
ClassifyRaises(r) ==
    /\ Entered(r)
    /\ \E s \in SessionsFor(r), own \in BOOLEAN :
         LET md == CreateMetadata(NoAgent)
             call == [rq[r] EXCEPT !.session = s, !.classified = "raise"] IN
         /\ rq' = Deliver(r, Returned(call, md, CLASSIFICATION_ERROR_MESSAGE, own))
         /\ default_params' = DefaultParamsAfter(md, own)
    /\ UNCHANGED <<default_agent, use_default, storeVars>>
    /\ OrchFrame

\* (mutant) the fallback is taken whatever the configuration says
UseDefaultAgentAlways == TRUE

\* if self.config.USE_DEFAULT_AGENT_IF_NONE_IDENTIFIED
UseDefaultAgent == use_default

\* dispatch_to_agent: fetch_chat, then selected_agent.process_request(...)
DispatchToAgent(call, cr) ==
    [call EXCEPT !.pc = "processing",
                 !.selected = cr.selected_agent,
                 !.confidence = cr.confidence,
                 !.dispatched = Append(@, [agent |-> cr.selected_agent,
                                           confidence |-> cr.confidence])]

\* route_request, classifier.classify returned a result without a selected
\* agent: the fallback result is dispatched, or the fixed message returned
ClassifyAbstains(r) ==
    /\ Entered(r)
    /\ \E s \in SessionsFor(r) :
         LET call == [rq[r] EXCEPT !.session = s, !.classified = "abstain"] IN
         IF UseDefaultAgent
         THEN /\ rq' = [rq EXCEPT ![r] = DispatchToAgent(call, GetFallbackResult)]
              /\ UNCHANGED default_params
         ELSE \E own \in BOOLEAN :
              LET md == CreateMetadata(NoAgent) IN
              /\ rq' = Deliver(r, Returned(call, md, NO_SELECTED_AGENT_MESSAGE, own))
              /\ default_params' = DefaultParamsAfter(md, own)
    /\ UNCHANGED <<default_agent, use_default, storeVars>>
    /\ OrchFrame

\* route_request, classifier.classify returned a selected agent, which is
\* dispatched to
ClassifySelects(r) ==
    /\ Entered(r)
    /\ \E s \in SessionsFor(r), a \in AgentIds :
         LET call == [rq[r] EXCEPT !.session = s, !.classified = "agent"] IN
         rq' = [rq EXCEPT ![r] =
                  DispatchToAgent(call, [selected_agent |-> a, confidence |-> 1])]
    /\ UNCHANGED <<default_agent, use_default, default_params, storeVars>>
    /\ OrchFrame

\* save_message: if agent and agent.save_chat
SavesChat(a) == a # NoAgent /\ AgentSaveChat(a)

\* (mutant) the assistant turn is saved for a stream as well
IsConversationMessageAny(res) == TRUE

\* isinstance(agent_response, ConversationMessage)
IsConversationMessage(res) == res = "message"

\* the key a turn of request r is saved under
RequestKey(r) == <<"u1", rq[r].session, rq[r].selected>>

\* process_request returned: create_metadata, then the saves; an agent with
\* save_chat = False makes both save_message calls return at once
AgentReturns(r) ==
    /\ rq[r].pc = "processing"
    /\ LET a == rq[r].selected
           res == IF AgentStreaming(a) THEN "stream" ELSE "message"
           md == CreateMetadata(a) IN
       IF SavesChat(a)
       THEN /\ rq' = [rq EXCEPT ![r] =
                        [@ EXCEPT !.pc = "save_user", !.result = res,
                                  !.agent_id = md.agent_id,
                                  !.agent_name = md.agent_name]]
            /\ UNCHANGED default_params
       ELSE \E own \in BOOLEAN :
            /\ rq' = Deliver(r, [Returned(rq[r], md, "agent_response", own)
                                    EXCEPT !.result = res])
            /\ default_params' = DefaultParamsAfter(md, own)
    /\ UNCHANGED <<default_agent, use_default, storeVars>>
    /\ OrchFrame

\* the general except branch of route_request
RoutingError(r, own) ==
    Returned(rq[r], CreateMetadata(rq[r].selected),
             GENERAL_ROUTING_ERROR_MSG_MESSAGE, own)

\* (mutant) the user turn is saved before the dispatch, so it is in the
\* store when process_request raises
AgentRaisesAfterSave(r) ==
    /\ rq[r].pc = "processing"
    /\ LET k == RequestKey(r)
           m == Msg(USER, "route", r) IN
       /\ store' = SaveChatMessage(store, k, m, MAX_MESSAGE_PAIRS_PER_AGENT)
       /\ appended' = [appended EXCEPT ![k] = Append(@, m)]
    /\ \E own \in BOOLEAN :
         /\ rq' = Deliver(r, [RoutingError(r, own) EXCEPT !.result = "raise"])
         /\ default_params' = DefaultParamsAfter(CreateMetadata(rq[r].selected), own)
    /\ UNCHANGED <<default_agent, use_default>>
    /\ OrchFrame

\* process_request raised
AgentRaises(r) ==
    /\ rq[r].pc = "processing"
    /\ \E own \in BOOLEAN :
         /\ rq' = Deliver(r, [RoutingError(r, own) EXCEPT !.result = "raise"])
         /\ default_params' = DefaultParamsAfter(CreateMetadata(rq[r].selected), own)
    /\ UNCHANGED <<default_agent, use_default, storeVars>>
    /\ OrchFrame

SaveCall(key, role, ok) == [key |-> key, role |-> role, ok |-> ok]

\* save_message(user turn) -> storage.save_chat_message
SaveUserTurn(r) ==
    /\ rq[r].pc = "save_user"
    /\ LET k == RequestKey(r)
           m == Msg(USER, "route", r)
           md == CreateMetadata(rq[r].selected) IN
       /\ store' = SaveChatMessage(store, k, m, MAX_MESSAGE_PAIRS_PER_AGENT)
       /\ appended' = [appended EXCEPT ![k] = Append(@, m)]
       /\ IF IsConversationMessage(rq[r].result)
          THEN /\ rq' = [rq EXCEPT ![r] =
                           [@ EXCEPT !.pc = "save_assistant",
                                     !.saves = Append(@, SaveCall(k, USER, TRUE))]]
               /\ UNCHANGED default_params
          ELSE \E own \in BOOLEAN :
               /\ rq' = Deliver(r, [Returned(rq[r], md, "agent_response", own)
                                      EXCEPT !.saves = Append(@, SaveCall(k, USER, TRUE))])
               /\ default_params' = DefaultParamsAfter(md, own)
    /\ UNCHANGED <<default_agent, use_default>>
    /\ OrchFrame

\* save_message(assistant turn) -> storage.save_chat_message
SaveAssistantTurn(r) ==
    /\ rq[r].pc = "save_assistant"
    /\ LET k == RequestKey(r)
           m == Msg(ASSISTANT, "route", r)
           md == CreateMetadata(rq[r].selected) IN
       /\ store' = SaveChatMessage(store, k, m, MAX_MESSAGE_PAIRS_PER_AGENT)
       /\ appended' = [appended EXCEPT ![k] = Append(@, m)]
       /\ \E own \in BOOLEAN :
            /\ rq' = Deliver(r, [Returned(rq[r], md, "agent_response", own)
                                   EXCEPT !.saves = Append(@, SaveCall(k, ASSISTANT, TRUE))])
            /\ default_params' = DefaultParamsAfter(md, own)
    /\ UNCHANGED <<default_agent, use_default>>
    /\ OrchFrame

\* storage.save_chat_message raised: the except branch answers
SaveFails(r) ==
    /\ rq[r].pc \in {"save_user", "save_assistant"}
    /\ LET role == IF rq[r].pc = "save_user" THEN USER ELSE ASSISTANT IN
       \E own \in BOOLEAN :
         /\ rq' = Deliver(r, [RoutingError(r, own)
                                EXCEPT !.saves = Append(@, SaveCall(RequestKey(r), role, FALSE))])
         /\ default_params' = DefaultParamsAfter(CreateMetadata(rq[r].selected), own)
    /\ UNCHANGED <<default_agent, use_default, storeVars>>
    /\ OrchFrame

Next ==
    \/ SetDefaultAgent
    \/ \E r \in Reqs : ClassifyRaises(r)
    \/ \E r \in Reqs : ClassifyAbstains(r)
    \/ \E r \in Reqs : ClassifySelects(r)
    \/ \E r \in Reqs : AgentReturns(r)
    \/ \E r \in Reqs : AgentRaises(r)
    \/ \E r \in Reqs : SaveUserTurn(r)
    \/ \E r \in Reqs : SaveAssistantTurn(r)
    \/ \E r \in Reqs : SaveFails(r)

\* ========================================================================
\* Configuration: the agent registry, the classifier, and the construction
\* of supervisors over underlying agents
\* ========================================================================

\* the names of the agents offered to add_agent, as character sequences
AgentNames ==
    {<<"T", "e", "c", "h">>, <<"T", "E", "C", "H">>,
     <<"T", "e", "c", "h", " ", "2">>, <<"T", "e", "c", "h", " ", "3">>,
     <<"4", "2">>}

\* [a-zA-Z] among the characters of those names
Letters == {"T", "E", "C", "H", "t", "e", "c", "h"}

\* the characters re.sub(r'[^a-zA-Z\s-]', '', name) keeps
IsKept(ch) == ch \in Letters \/ ch = " " \/ ch = "-"

\* str.lower on one character
Lower(ch) ==
    CASE ch = "T" -> "t" [] ch = "E" -> "e" [] ch = "C" -> "c"
      [] ch = "H" -> "h" [] OTHER -> ch

RECURSIVE DropSpaces(_)
DropSpaces(seq) ==
    IF seq # <<>> /\ Head(seq) = " " THEN DropSpaces(Tail(seq)) ELSE seq

\* re.sub(r'\s+', '-', key): every run of whitespace becomes one hyphen
RECURSIVE DashSpaces(_)
DashSpaces(seq) ==
    IF seq = <<>> THEN <<>>
    ELSE IF Head(seq) = " " THEN <<"-">> \o DashSpaces(DropSpaces(Tail(seq)))
    ELSE <<Head(seq)>> \o DashSpaces(Tail(seq))

\* Agent.generate_key_from_name: the id of an agent of that name
GenerateKeyFromName(name) ==
    LET key == DashSpaces(SelectSeq(name, IsKept)) IN
    [i \in 1..Len(key) |-> Lower(key[i])]

Classifiers == {"K1", "K2"}

\* the agents a supervisor may be constructed over: L1 a BedrockLLMAgent
\* without tool_config, L2 a BedrockLLMAgent whose tool_config the user has
\* set, L3 an agent of another class without tool_config
Leads == {"L1", "L2", "L3"}

\* isinstance(supervisor, BedrockLLMAgent) or AnthropicAgent
LeadSupported(l) == l # "L3"

\* options.supervisor left at its default, None
NoLead == "None"

\* the team option: left at its default (the empty list), or the team
TeamOptions == {<<>>, Team}

EmptyRegistry == [id \in {} |-> <<>>]

NoCall ==
    [calls |-> 0, op |-> "none", agent |-> <<>>, target |-> "none",
     outcome |-> "none", clean |-> TRUE]

\* the record of call number n: clean tells that no call so far has raised
Call(op, agent, target, outcome) ==
    [calls |-> setup.calls + 1, op |-> op, agent |-> agent,
     target |-> target, outcome |-> outcome,
     clean |-> setup.clean /\ outcome = "ok"]

SetupIdle ==
    /\ agents = EmptyRegistry
    /\ classifier_agents = [k \in Classifiers |-> EmptyRegistry]
    /\ lead_tool_config = [l \in Leads |-> IF l = "L2" THEN "manual" ELSE "unset"]
    /\ built = {}
    /\ built_team = [l \in Leads |-> <<>>]
    /\ setup = NoCall

\* MultiAgentOrchestrator.__init__(classifier=None) and the agents as built
SetupInit == SetupIdle /\ classifier \in {"none", "K1"}

\* the configuration as the other components leave it
SetupOff == SetupIdle /\ classifier = "K1"

SetupFrame == UNCHANGED <<storeVars, orchVars, supVars, loopVars, unitVars>>

\* (mutant) the duplicate test is missing
AlreadyRegisteredNever(id) == FALSE

\* agent.id in self.agents
AlreadyRegistered(id) == id \in DOMAIN agents

\* self.agents[agent.id] = agent
Registered(id, a) ==
    [k \in DOMAIN agents \cup {id} |-> IF k = id THEN a ELSE agents[k]]

\* Classifier.set_agents(agents): the classifier's candidates are the
\* agents it is given
SetAgents(k, registry) == [classifier_agents EXCEPT ![k] = registry]

\* MultiAgentOrchestrator.add_agent(agent)
AddAgent(a) ==
    /\ setup.calls < MaxSetupCalls
    /\ LET id == GenerateKeyFromName(a) IN
       IF AlreadyRegistered(id)
       THEN /\ setup' = Call("add_agent", a, "none", "ValueError")
            /\ UNCHANGED <<agents, classifier_agents>>
       ELSE /\ agents' = Registered(id, a)
            /\ IF classifier = "none"
               THEN /\ setup' = Call("add_agent", a, "none", "AttributeError")
                    /\ UNCHANGED classifier_agents
               ELSE /\ setup' = Call("add_agent", a, "none", "ok")
                    /\ classifier_agents' = SetAgents(classifier, agents')
    /\ UNCHANGED <<classifier, lead_tool_config, built, built_team>>
    /\ SetupFrame

\* MultiAgentOrchestrator.set_classifier(intent_classifier)
SetClassifier(k) ==
    /\ setup.calls < MaxSetupCalls
    /\ classifier' = k
    /\ setup' = Call("set_classifier", <<>>, k, "ok")
    /\ UNCHANGED <<agents, classifier_agents, lead_tool_config, built, built_team>>
    /\ SetupFrame

\* (mutant) the test for an existing tool_config is missing
ToolConfigSetNever(cfg) == FALSE

\* self.supervisor.tool_config is set (truthy)
ToolConfigSet(cfg) == cfg # "unset"

\* SupervisorAgent.__init__ over the agent l with the given team: without an
\* agent options.supervisor.name fails; the tool_config is installed unless
\* one is set already (RuntimeError); an agent of an unsupported class is
\* rejected at the end, after the tool_config has been installed; the team
\* is taken as given
SupervisorAgentInit(l, team) ==
    /\ setup.calls < MaxSetupCalls
    /\ IF l = NoLead
       THEN /\ setup' = Call("SupervisorAgent", <<>>, l, "AttributeError")
            /\ UNCHANGED <<lead_tool_config, built, built_team>>
       ELSE IF ToolConfigSet(lead_tool_config[l])
       THEN /\ setup' = Call("SupervisorAgent", <<>>, l, "RuntimeError")
            /\ UNCHANGED <<lead_tool_config, built, built_team>>
       ELSE /\ lead_tool_config' = [lead_tool_config EXCEPT ![l] = "supervisor"]
            /\ IF LeadSupported(l)
               THEN /\ built' = built \cup {l}
                    /\ built_team' = [built_team EXCEPT ![l] = team]
                    /\ setup' = Call("SupervisorAgent", <<>>, l, "ok")
               ELSE /\ setup' = Call("SupervisorAgent", <<>>, l, "RuntimeError")
                    /\ UNCHANGED <<built, built_team>>
    /\ UNCHANGED <<agents, classifier, classifier_agents>>
    /\ SetupFrame

NextSetup ==
    \/ \E a \in AgentNames : AddAgent(a)
    \/ \E k \in Classifiers : SetClassifier(k)
    \/ \E l \in Leads \cup {NoLead}, team \in TeamOptions :
         SupervisorAgentInit(l, team)

\* ========================================================================
\* SupervisorAgent: process_request and the send_messages fan-out
\* ========================================================================
SupCalls == 1..MaxSupCalls

\* Agent.save_chat of the team members
MemberSaveChat(name) == name # "B"

\* whether the member answers with a stream instead of a ConversationMessage
MemberStreaming(name) == name = "B"

\* recipients the supervisor's model may name: the team and a stranger
Recipients == {Team[i] : i \in 1..Len(Team)} \cup {"Nobody"}

\* the messages argument of send_messages: 1..MaxEntries entries
EntryLists == UNION {[1..n -> Recipients] : n \in 1..MaxEntries}

\* session: the session_id argument; entries: the messages argument of the
\* current send_messages; first: the task of that call which finished first
\* (0: none yet); result: the responses send_messages returned; error: what
\* the exception the call raised came from
IdleSupCall ==
    [pc |-> "idle", session |-> "s1", entries |-> <<>>, first |-> 0,
     result |-> <<>>, error |-> "none"]

\* a call that has returned or raised: its locals are gone
EndedSupCall(how, err) == [IdleSupCall EXCEPT !.pc = how, !.error = err]

SupInit ==
    /\ sup_user_id = ""
    /\ sup_session_id = ""
    /\ sup = [c \in SupCalls |-> IdleSupCall]
    /\ tasks = [c \in SupCalls |-> <<>>]
    /\ next_task = 0

SupFrame == UNCHANGED <<orchVars, loopVars, setupVars, unitVars>>

\* SupervisorAgent.process_request up to the call of the underlying agent:
\* self.user_id / self.session_id are set, the memory digest is built.
\* Sessions are interchangeable: the first call's session is named s1, a
\* later call is in the same session or in another one. The requests come
\* one after another: a call starts when the earlier ones have returned or
\* raised and the sub-dispatches they left behind have come to an end
SupProcessRequest(c) ==
    /\ sup[c].pc = "idle"
    /\ \A q \in 1..(c - 1) :
         /\ sup[q].pc \in {"done", "raised"}
         /\ \A i \in 1..Len(tasks[q]) : tasks[q][i].pc \in {"done", "failed"}
    /\ \E s \in (IF c = 1 THEN {"s1"} ELSE Sessions) :
         /\ sup' = [sup EXCEPT ![c] = [@ EXCEPT !.pc = "model", !.session = s]]
         /\ sup_user_id' = "u1"
         /\ sup_session_id' = s
    /\ UNCHANGED <<tasks, next_task, storeVars>>
    /\ SupFrame

\* (mutant) the loops are nested the other way round: entries outside
RECURSIVE MatchesByEntry(_, _, _)
MatchesByEntry(entries, i, j) ==
    IF j > Len(entries) THEN <<>>
    ELSE IF i > Len(Team) THEN MatchesByEntry(entries, 1, j + 1)
    ELSE (IF Team[i] = entries[j]
          THEN <<[agent |-> Team[i], entry |-> j]>>
          ELSE <<>>) \o MatchesByEntry(entries, i + 1, j)

\* (mutant) the inner loop breaks at a member's first matching entry
RECURSIVE MatchesOncePerMember(_, _, _)
MatchesOncePerMember(entries, i, j) ==
    IF i > Len(Team) THEN <<>>
    ELSE IF j > Len(entries) THEN MatchesOncePerMember(entries, i + 1, 1)
    ELSE IF Team[i] = entries[j]
         THEN <<[agent |-> Team[i], entry |-> j]>>
                \o MatchesOncePerMember(entries, i + 1, 1)
         ELSE MatchesOncePerMember(entries, i, j + 1)

\* the (agent, entry) pairs send_messages starts a task for:
\* for agent in self.team: for message in messages: if names match
RECURSIVE Matches(_, _, _)
Matches(entries, i, j) ==
    IF i > Len(Team) THEN <<>>
    ELSE IF j > Len(entries) THEN Matches(entries, i + 1, 1)
    ELSE (IF Team[i] = entries[j]
          THEN <<[agent |-> Team[i], entry |-> j]>>
          ELSE <<>>) \o Matches(entries, i, j + 1)

\* asyncio.create_task(asyncio.to_thread(self.send_message, agent, content,
\*                     self.user_id, self.session_id, {}))
NewTask(m, n) ==
    [agent |-> m.agent, entry |-> m.entry, id |-> n,
     user |-> sup_user_id, session |-> sup_session_id,
     pc |-> "process", response |-> "none"]

\* the supervisor's model requests send_messages(entries): the tasks are
\* created; with no match the tool result is '' and the loop goes on
SupSendMessages(c) ==
    /\ sup[c].pc = "model"
    /\ \E entries \in EntryLists :
         LET ms == Matches(entries, 1, 1) IN
         /\ next_task + Len(ms) <= MaxTasks
         /\ tasks' = [tasks EXCEPT ![c] =
                        [i \in 1..Len(ms) |-> NewTask(ms[i], next_task + i)]]
         /\ next_task' = next_task + Len(ms)
         /\ sup' = [sup EXCEPT ![c] =
                      [@ EXCEPT !.pc = IF ms = <<>> THEN "model" ELSE "gather",
                                !.entries = entries, !.first = 0,
                                !.result = <<>>]]
    /\ UNCHANGED <<sup_user_id, sup_session_id, storeVars>>
    /\ SupFrame

\* the supervisor's model answers without a tool request (or the round
\* budget is used up): process_request returns
SupReturns(c) ==
    /\ sup[c].pc = "model"
    /\ sup' = [sup EXCEPT ![c] = EndedSupCall("done", "none")]
    /\ UNCHANGED <<sup_user_id, sup_session_id, tasks, next_task, storeVars>>
    /\ SupFrame

\* the underlying model call raised: process_request re-raises
SupModelRaises(c) ==
    /\ sup[c].pc = "model"
    /\ sup' = [sup EXCEPT ![c] = EndedSupCall("raised", "model")]
    /\ UNCHANGED <<sup_user_id, sup_session_id, tasks, next_task, storeVars>>
    /\ SupFrame

TaskKey(t) == <<t.user, t.session, MemberId(t.agent)>>

\* a task that raised: its locals are gone
FailedTask(t) == [t EXCEPT !.pc = "failed", !.response = "none"]

\* a sub-dispatch that is still running
InFlight(t) == t.pc \in {"process", "save_user", "save_assistant"}

\* the tasks of call c after a step: once the call has raised nothing holds
\* on to its tasks, and those that have come to an end are gone
Settled(c, ts) == IF sup[c].pc = "raised" THEN SelectSeq(ts, InFlight) ELSE ts

\* the call record once task i of call c has finished (returned or raised):
\* while gather waits, the first task to finish is noted
TaskFinished(c, i) ==
    [sup EXCEPT ![c] =
       IF @.pc = "gather" /\ @.first = 0 THEN [@ EXCEPT !.first = i] ELSE @]

\* send_message: fetch_chat (if save_chat) and agent.process_request
TaskProcess(c, i) ==
    /\ i \in 1..Len(tasks[c])
    /\ tasks[c][i].pc = "process"
    /\ \E ok \in BOOLEAN :
         tasks' = [tasks EXCEPT ![c] = Settled(c, [@ EXCEPT ![i] =
                     IF ok
                     THEN [@ EXCEPT !.pc = "save_user",
                                    !.response = IF MemberStreaming(tasks[c][i].agent)
                                                 THEN "stream" ELSE "message"]
                     ELSE FailedTask(@)])]
         /\ sup' = IF ok THEN sup ELSE TaskFinished(c, i)
    /\ UNCHANGED <<sup_user_id, sup_session_id, next_task, storeVars>>
    /\ SupFrame

\* send_message: storage.save_chat_message(user_id, session_id, agent.id,
\* user turn), called without max_message_pairs
TaskSaveUser(c, i) ==
    /\ i \in 1..Len(tasks[c])
    /\ tasks[c][i].pc = "save_user"
    /\ LET t == tasks[c][i]
           m == Msg(USER, "sub", t.id) IN
       /\ store' = SaveChatMessage(store, TaskKey(t), m, NoLimit)
       /\ appended' = [appended EXCEPT ![TaskKey(t)] = Append(@, m)]
       /\ tasks' = [tasks EXCEPT ![c][i] = [@ EXCEPT !.pc = "save_assistant"]]
    /\ UNCHANGED <<sup_user_id, sup_session_id, sup, next_task>>
    /\ SupFrame

\* send_message: storage.save_chat_message(..., assistant turn) with the
\* text of response.content[0], then the return of the member's answer
TaskSaveAssistant(c, i) ==
    /\ i \in 1..Len(tasks[c])
    /\ tasks[c][i].pc = "save_assistant"
    /\ tasks[c][i].response = "message"
    /\ LET t == tasks[c][i]
           m == Msg(ASSISTANT, "sub", t.id) IN
       /\ store' = SaveChatMessage(store, TaskKey(t), m, NoLimit)
       /\ appended' = [appended EXCEPT ![TaskKey(t)] = Append(@, m)]
       /\ tasks' = [tasks EXCEPT ![c] =
                      Settled(c, [@ EXCEPT ![i] = [@ EXCEPT !.pc = "done"]])]
    /\ sup' = TaskFinished(c, i)
    /\ UNCHANGED <<sup_user_id, sup_session_id, next_task>>
    /\ SupFrame

\* send_message raises after process_request: the store call failed, or
\* the response is a stream and has no content (AttributeError)
TaskSaveRaises(c, i) ==
    /\ i \in 1..Len(tasks[c])
    /\ tasks[c][i].pc \in {"save_user", "save_assistant"}
    /\ tasks' = [tasks EXCEPT ![c] = Settled(c, [@ EXCEPT ![i] = FailedTask(@)])]
    /\ sup' = TaskFinished(c, i)
    /\ UNCHANGED <<sup_user_id, sup_session_id, next_task, storeVars>>
    /\ SupFrame

\* the answer of a task: f'{agent.name}: {text}'
Response(t) == [agent |-> t.agent, entry |-> t.entry]

\* (mutant) the answers are collected as they arrive: the first task to
\* finish comes first
GatherAsCompleted(ts, first) ==
    LET r == [i \in 1..Len(ts) |-> Response(ts[i])] IN
    IF first \in 1..Len(ts)
    THEN <<r[first]>> \o SubSeq(r, 1, first - 1) \o SubSeq(r, first + 1, Len(r))
    ELSE r

\* asyncio.gather(*tasks): the answers in the order of the tasks given
Gather(ts, first) == [i \in 1..Len(ts) |-> Response(ts[i])]

\* responses = await asyncio.gather(*tasks); return ''.join(responses):
\* all tasks are done, their answers are joined in task order
SupGatherReturns(c) ==
    /\ sup[c].pc = "gather"
    /\ \A i \in 1..Len(tasks[c]) : tasks[c][i].pc = "done"
    /\ sup' = [sup EXCEPT ![c] =
                 [@ EXCEPT !.pc = "model",
                           !.result = Gather(tasks[c], sup[c].first)]]
    /\ tasks' = [tasks EXCEPT ![c] = <<>>]
    /\ UNCHANGED <<sup_user_id, sup_session_id, next_task, storeVars>>
    /\ SupFrame

\* asyncio.gather raises as soon as one task has failed; nothing on the way
\* up catches it, so process_request raises; the other tasks run on
SupGatherRaises(c) ==
    /\ sup[c].pc = "gather"
    /\ \E i \in 1..Len(tasks[c]) : tasks[c][i].pc = "failed"
    /\ sup' = [sup EXCEPT ![c] = EndedSupCall("raised", "tool")]
    /\ tasks' = [tasks EXCEPT ![c] = SelectSeq(@, InFlight)]
    /\ UNCHANGED <<sup_user_id, sup_session_id, next_task, storeVars>>
    /\ SupFrame

TaskIndexes == 1..MaxTasks

NextSup ==
    \/ \E c \in SupCalls : SupProcessRequest(c)
    \/ \E c \in SupCalls : SupSendMessages(c)
    \/ \E c \in SupCalls : SupReturns(c)
    \/ \E c \in SupCalls : SupModelRaises(c)
    \/ \E c \in SupCalls, i \in TaskIndexes : TaskProcess(c, i)
    \/ \E c \in SupCalls, i \in TaskIndexes : TaskSaveUser(c, i)
    \/ \E c \in SupCalls, i \in TaskIndexes : TaskSaveAssistant(c, i)
    \/ \E c \in SupCalls, i \in TaskIndexes : TaskSaveRaises(c, i)
    \/ \E c \in SupCalls : SupGatherReturns(c)
    \/ \E c \in SupCalls : SupGatherRaises(c)

\* ========================================================================
\* InMemoryChatStorage, the storage an orchestrator or a supervisor is given
\* when none is passed in
\* ========================================================================

\* the keys the calls are made on
StorageKeys == {k \in Keys : k[3] = "tech"}

NoMsg == Msg("none", "none", 0)

\* one call on the storage: what was passed in and what came back
StorageCall(op, key, msg, maxp, result) ==
    [op |-> op, key |-> key, msg |-> msg, maxp |-> maxp, result |-> result]

\* InMemoryChatStorage.fetch_chat(user_id, session_id, agent_id): return []
InMemoryFetchChat(key) == <<>>

StorageIdle == storage_calls = <<>>

\* InMemoryChatStorage.save_chat_message(..., message, max_message_pairs):
\* pass -- the object has no field the message could be kept in
InMemorySaveChatMessage(key, role) ==
    /\ Len(storage_calls) < MaxStorageCalls
    /\ \E maxp \in 1..(MaxPairs + 1) :
         storage_calls' = Append(storage_calls,
             StorageCall("save", key, Msg(role, "caller", Len(storage_calls) + 1),
                         maxp, <<>>))
    /\ UNCHANGED <<agent_call, tool_round, partVars>>
    /\ UNCHANGED <<storeVars, orchVars, supVars, setupVars, loopVars>>

\* a caller fetches the messages of a key
InMemoryFetch(key) ==
    /\ Len(storage_calls) < MaxStorageCalls
    /\ storage_calls' = Append(storage_calls,
          StorageCall("fetch", key, NoMsg, NoLimit, InMemoryFetchChat(key)))
    /\ UNCHANGED <<agent_call, tool_round, partVars>>
    /\ UNCHANGED <<storeVars, orchVars, supVars, setupVars, loopVars>>

NextStorage ==
    \/ \E k \in StorageKeys, role \in {USER, ASSISTANT} :
         InMemorySaveChatMessage(k, role)
    \/ \E k \in StorageKeys : InMemoryFetch(k)

\* ========================================================================
\* process_request of the agent classes, each called on its own
\* ========================================================================

\* what process_request gives back: a ConversationMessage (its role, and
\* whether content[0] carries text), a stream (the role of its final
\* message), None, or an exception
Result(kind, role, text) == [kind |-> kind, role |-> role, text |-> text]
NoResult == Result("none", "none", FALSE)
Raised == Result("raise", "none", FALSE)
Message(role, text) == Result("message", role, text)
Stream(role) == Result("stream", role, TRUE)

\* the role the back-end reports in response['output']['message']['role']
BackendRoles == {ASSISTANT, USER}

\* what the model back-end does with one call: it raises (fault), or it
\* answers, with or without 'output', reporting a role
BackendReplies == [fault : BOOLEAN, output : BOOLEAN, role : BackendRoles]
NoBackend == [fault |-> FALSE, output |-> FALSE, role |-> "none"]

\* BedrockLLMAgent.handle_single_response: the role is the reported one
HandleSingleResponse(b) ==
    IF b.fault \/ ~b.output THEN Raised ELSE Message(b.role, TRUE)

\* BedrockLLMAgent.handle_streaming_response: the final message is built
\* with role ASSISTANT, the role of messageStart is not used
HandleStreamingResponse(b) ==
    IF b.fault THEN Raised ELSE Stream(ASSISTANT)

\* BedrockLLMAgent.process_request of an agent without tool_config: the
\* budget is 1, the only reply is the result
BedrockProcessRequest(streaming, b) ==
    IF streaming THEN HandleStreamingResponse(b) ELSE HandleSingleResponse(b)

\* SupervisorAgent.process_request: try: response = await
\* self.supervisor.process_request(...) except: log, raise e; return response
SupervisorProcessRequest(inner) == inner

\* ChainAgent.create_default_response
CreateDefaultResponse == Message(ASSISTANT, TRUE)

\* what an agent of a chain may give back
ChainResults ==
    {Message(ASSISTANT, TRUE), Message(USER, TRUE), Message(ASSISTANT, FALSE),
     Stream(ASSISTANT), NoResult, Raised}

\* the chains: 1..MaxChain agents, each with what it gives back when called
Chains == UNION {[1..n -> ChainResults] : n \in 1..MaxChain}

\* ChainAgent.process_request from agent i on: a message with text is the
\* next input; anything else from an intermediate agent, a message without
\* text, an invalid response and an exception all end the call with the
\* default response
RECURSIVE ChainFrom(_, _, _)
ChainFrom(subs, i, final_response) ==
    IF i > Len(subs) THEN final_response
    ELSE LET response == subs[i]
             is_last_agent == i = Len(subs) IN
         IF response.kind = "raise" THEN CreateDefaultResponse
         ELSE IF response.kind = "message"
         THEN (IF response.text THEN ChainFrom(subs, i + 1, response)
               ELSE CreateDefaultResponse)
         ELSE IF response.kind = "stream"
         THEN (IF ~is_last_agent THEN CreateDefaultResponse
               ELSE ChainFrom(subs, i + 1, response))
         ELSE CreateDefaultResponse

ChainProcessRequest(subs) == ChainFrom(subs, 1, NoResult)

\* the agents of the chain that are called: agent i is, when all before it
\* gave a message with text
ChainCalled(subs) ==
    {i \in 1..Len(subs) :
       \A j \in 1..(i - 1) : subs[j].kind = "message" /\ subs[j].text}

\* ComprehendFilterAgent.process_request: an exception of a check is
\* re-raised; with issues the result is None; else the input as a message
ComprehendProcessRequest(fault, issues) ==
    IF fault THEN Raised
    ELSE IF issues THEN NoResult
    ELSE Message(ASSISTANT, TRUE)

\* LexBotAgent.process_request
LexProcessRequest(fault) ==
    IF fault THEN Raised ELSE Message(ASSISTANT, TRUE)

\* BedrockTranslatorAgent.process_request: digits come back as they are;
\* a reply without a valid Translate tool use is a ValueError
TranslatorProcessRequest(digits, fault, valid) ==
    IF digits THEN Message(ASSISTANT, TRUE)
    ELSE IF fault \/ ~valid THEN Raised
    ELSE Message(ASSISTANT, TRUE)

\* one process_request call: the class of the agent, the case it is called
\* in, what the back-end or the wrapped agents do, whether a model call or
\* a wrapped agent raised inside the call, and the result
AgentCall(class, case, backend, subs, fault, result) ==
    [class |-> class, case |-> case, backend |-> backend,
     subs |-> subs, fault |-> fault, result |-> result]

NoAgentCall == AgentCall("none", "none", NoBackend, <<>>, FALSE, NoResult)

\* self.streaming of a BedrockLLMAgent
Mode(streaming) == IF streaming THEN "streaming" ELSE "single"

\* no call has been made (one call on one agent is looked at)
AgentsIdle == agent_call = NoAgentCall

AgentsFrame ==
    /\ UNCHANGED <<storage_calls, tool_round, partVars>>
    /\ UNCHANGED <<storeVars, orchVars, supVars, setupVars, loopVars>>

CallBedrockLLMAgent ==
    /\ AgentsIdle
    /\ \E streaming \in BOOLEAN, b \in BackendReplies :
         agent_call' = AgentCall("BedrockLLMAgent", Mode(streaming), b, <<>>,
                                 b.fault, BedrockProcessRequest(streaming, b))
    /\ AgentsFrame

CallSupervisorAgent ==
    /\ AgentsIdle
    /\ \E streaming \in BOOLEAN, b \in BackendReplies :
         agent_call' = AgentCall("SupervisorAgent", Mode(streaming), b, <<>>,
             b.fault,
             SupervisorProcessRequest(BedrockProcessRequest(streaming, b)))
    /\ AgentsFrame

CallChainAgent ==
    /\ AgentsIdle
    /\ \E subs \in Chains :
         agent_call' = AgentCall("ChainAgent", "chain", NoBackend, subs,
             \E i \in ChainCalled(subs) : subs[i] = Raised,
             ChainProcessRequest(subs))
    /\ AgentsFrame

CallComprehendFilterAgent ==
    /\ AgentsIdle
    /\ \E fault \in BOOLEAN, issues \in BOOLEAN :
         agent_call' = AgentCall("ComprehendFilterAgent",
             IF issues THEN "issues" ELSE "clean", NoBackend,
             <<>>, fault, ComprehendProcessRequest(fault, issues))
    /\ AgentsFrame

CallLexBotAgent ==
    /\ AgentsIdle
    /\ \E fault \in BOOLEAN :
         agent_call' = AgentCall("LexBotAgent", "text", NoBackend, <<>>, fault,
                                 LexProcessRequest(fault))
    /\ AgentsFrame

CallBedrockTranslatorAgent ==
    /\ AgentsIdle
    /\ \E digits \in BOOLEAN, fault \in BOOLEAN, valid \in BOOLEAN :
         agent_call' = AgentCall("BedrockTranslatorAgent",
             IF digits THEN "digits" ELSE IF valid THEN "text" ELSE "invalid",
             NoBackend, <<>>, ~digits /\ fault,
             TranslatorProcessRequest(digits, fault, valid))
    /\ AgentsFrame

NextAgents ==
    \/ CallBedrockLLMAgent
    \/ CallSupervisorAgent
    \/ CallChainAgent
    \/ CallComprehendFilterAgent
    \/ CallLexBotAgent
    \/ CallBedrockTranslatorAgent

\* ========================================================================
\* SupervisorAgent.supervisor_tool_handler (examples/supervisor-mode and
\* examples/movie-production)
\* ========================================================================

\* the supervisor's built-in table, and a name that is not in it
BuiltInTools == {"send_messages", "get_current_date"}
ToolNames == BuiltInTools \cup {"lookup"}

\* the content blocks of a model reply: text, or a toolUse of a name; the
\* toolUseId of a block is its position in the reply
BlockKinds == {"text"} \cup ToolNames
Contents == UNION {[1..n -> BlockKinds] : n \in 0..MaxBlocks}

\* _get_tool_use_block(block) is not None
IsToolUse(kind) == kind # "text"

\* what a tool gave: the joined responses, the date, an error text naming
\* a tool, or an exception
ToolOutcome(kind, name) == [kind |-> kind, name |-> name]

\* (mutant) an unknown tool name is an exception
ProcessToolStrict(tool_name, fails) ==
    IF tool_name = "send_messages"
    THEN (IF fails THEN ToolOutcome("raise", "") ELSE ToolOutcome("responses", ""))
    ELSE IF tool_name = "get_current_date" THEN ToolOutcome("date", "")
    ELSE ToolOutcome("raise", "")

\* _process_tool(tool_name, input_data); fails: send_messages raises
ProcessTool(tool_name, fails) ==
    IF tool_name = "send_messages"
    THEN (IF fails THEN ToolOutcome("raise", "") ELSE ToolOutcome("responses", ""))
    ELSE IF tool_name = "get_current_date" THEN ToolOutcome("date", "")
    ELSE ToolOutcome("error", tool_name)

\* ToolResult(tool_id, result)
ToolResult(tool_id, result) == [toolUseId |-> tool_id, result |-> result]

\* what the handler gives back: a message, None, or an exception
Handled(kind, role, content) == [kind |-> kind, role |-> role, content |-> content]
HandlerRaised == Handled("raise", "none", <<>>)
HandlerNone == Handled("none", "none", <<>>)

\* the positions of the toolUse blocks of a reply, in block order
RECURSIVE ToolUses(_, _)
ToolUses(content, i) ==
    IF i > Len(content) THEN <<>>
    ELSE (IF IsToolUse(content[i]) THEN <<i>> ELSE <<>>) \o ToolUses(content, i + 1)

\* examples/supervisor-mode: the return statement is inside the for loop,
\* after the first toolUse block has been processed; a reply without a
\* toolUse block falls out of the loop (None)
SupervisorToolHandler(content, fails) ==
    IF content = <<>> THEN HandlerRaised
    ELSE LET uses == ToolUses(content, 1) IN
         IF uses = <<>> THEN HandlerNone
         ELSE LET result == ProcessTool(content[uses[1]], fails) IN
              IF result.kind = "raise" THEN HandlerRaised
              ELSE Handled("message", USER, <<ToolResult(uses[1], result)>>)

\* examples/movie-production: the return statement follows the for loop
MovieSupervisorToolHandler(content, fails) ==
    IF content = <<>> THEN HandlerRaised
    ELSE LET uses == ToolUses(content, 1)
             results == [n \in 1..Len(uses) |->
                           ToolResult(uses[n], ProcessTool(content[uses[n]], fails))] IN
         IF \E n \in 1..Len(uses) : results[n].result.kind = "raise"
         THEN HandlerRaised
         ELSE Handled("message", USER, results)

\* one call of a tool handler
ToolRoundOf(handler, content, fails, result) ==
    [handler |-> handler, content |-> content, fails |-> fails, result |-> result]

NoToolRound == ToolRoundOf("none", <<>>, FALSE, HandlerNone)

ToolsIdle == tool_round = NoToolRound

ToolsFrame ==
    /\ UNCHANGED <<storage_calls, agent_call, partVars>>
    /\ UNCHANGED <<storeVars, orchVars, supVars, setupVars, loopVars>>

\* the tool loop hands a reply to the handler of examples/supervisor-mode
\* (one call is looked at)
CallSupervisorToolHandler ==
    /\ ToolsIdle
    /\ \E content \in Contents, fails \in BOOLEAN :
         tool_round' = ToolRoundOf("supervisor-mode", content, fails,
                                   SupervisorToolHandler(content, fails))
    /\ ToolsFrame

\* the tool loop hands a reply to the handler of examples/movie-production
CallMovieSupervisorToolHandler ==
    /\ ToolsIdle
    /\ \E content \in Contents, fails \in BOOLEAN :
         tool_round' = ToolRoundOf("movie-production", content, fails,
                                   MovieSupervisorToolHandler(content, fails))
    /\ ToolsFrame

NextTools ==
    \/ CallSupervisorToolHandler
    \/ CallMovieSupervisorToolHandler

\* ========================================================================
\* BedrockLLMAgent.handle_streaming_response, one stream event at a time
\* ========================================================================

\* the toolUseId values and the text and input fragments a stream carries
ToolUseIds == {1, 2}
TextDeltas == {<<"a">>, <<"b">>}
InputDeltas == {<<>>, <<"{">>, <<"}">>, <<"{", "}">>}

\* json.loads on the documents the fragments can spell: "{}" is the empty
\* object, every other text (the empty one included) is a JSONDecodeError
JsonValid(s) == s = <<"{", "}">>
JsonLoads(s) == [type |-> "object", members |-> Len(s) - 2]

\* a Python dict with string keys; d[k] = v
EmptyDict == << >>
DictSet(d, k, v) == (k :> v) @@ d

\* the content entries {'toolUse': tool_use} and {'text': text}
ToolUseEntry(tool_use) == [kind |-> "toolUse", value |-> tool_use]
TextEntry(text) == [kind |-> "text", value |-> text]

\* what the stream has sent for one content block
Block(kind, id, name, deltas, joined) ==
    [kind |-> kind, id |-> id, name |-> name, deltas |-> deltas,
     joined |-> joined]
NoBlock == Block("none", 0, "none", 0, <<>>)

\* no call yet: message = {}, content = [], text = '', tool_use = {}
NoStreamCall ==
    [pc |-> "idle", events |-> 0, blocks |-> <<>>, cur |-> NoBlock,
     content |-> <<>>, text |-> <<>>, tool_use |-> EmptyDict,
     yielded |-> 0, final_message |-> NoResult, final_content |-> <<>>]

StreamIdle == stream_call = NoStreamCall

StreamFrame ==
    /\ UNCHANGED <<storage_calls, agent_call, tool_round, prompt_call, overlap,
                   chain_call>>
    /\ UNCHANGED <<storeVars, orchVars, supVars, setupVars, loopVars>>

StreamMore == stream_call.pc = "open" /\ stream_call.events < MaxEvents

\* 'messageStart' in chunk: message['role'] = chunk['messageStart']['role']
MessageStart ==
    /\ stream_call.pc = "idle"
    /\ stream_call' = [stream_call EXCEPT !.pc = "open"]
    /\ StreamFrame

\* 'contentBlockStart' in chunk: the id and the name of the tool are put
\* into tool_use
ContentBlockStart(id, name) ==
    /\ StreamMore
    /\ stream_call.cur = NoBlock
    /\ stream_call' = [stream_call EXCEPT
         !.events = @ + 1,
         !.cur = Block("toolUse", id, name, 0, <<>>),
         !.tool_use = DictSet(DictSet(stream_call.tool_use, "toolUseId", id),
                              "name", name)]
    /\ StreamFrame

\* 'contentBlockDelta' with 'toolUse' in delta: the fragment is added to
\* tool_use['input'], created empty when missing
ToolUseDelta(frag) ==
    /\ StreamMore
    /\ stream_call.cur.kind = "toolUse"
    /\ LET tu == stream_call.tool_use
           had == IF "input" \in DOMAIN tu THEN tu["input"] ELSE <<>> IN
       stream_call' = [stream_call EXCEPT
         !.events = @ + 1,
         !.cur.deltas = @ + 1,
         !.cur.joined = @ \o frag,
         !.tool_use = DictSet(tu, "input", had \o frag)]
    /\ StreamFrame

\* 'contentBlockDelta' with 'text' in delta: text += delta['text'] and the
\* fragment is yielded; a text block has no contentBlockStart of its own
TextDelta(frag) ==
    /\ StreamMore
    /\ stream_call.cur.kind \in {"none", "text"}
    /\ stream_call' = [stream_call EXCEPT
         !.events = @ + 1,
         !.cur = Block("text", 0, "none", stream_call.cur.deltas + 1,
                       stream_call.cur.joined \o frag),
         !.text = @ \o frag,
         !.yielded = @ + 1]
    /\ StreamFrame

\* 'contentBlockStop' in chunk: with 'input' in tool_use the input is
\* parsed and the toolUse entry appended, tool_use = {}; otherwise a text
\* entry is appended, text = ''. A JSONDecodeError is logged and re-raised
ContentBlockStop ==
    /\ stream_call.pc = "open"
    /\ stream_call.cur # NoBlock
    /\ LET tu == stream_call.tool_use
           done == Append(stream_call.blocks, stream_call.cur) IN
       IF "input" \in DOMAIN tu
       THEN IF JsonValid(tu["input"])
            THEN stream_call' = [stream_call EXCEPT
                   !.blocks = done, !.cur = NoBlock,
                   !.content = Append(@, ToolUseEntry(
                       DictSet(tu, "input", JsonLoads(tu["input"])))),
                   !.tool_use = EmptyDict]
            ELSE stream_call' = [stream_call EXCEPT
                   !.blocks = done, !.cur = NoBlock, !.pc = "raised",
                   !.final_message = Raised]
       ELSE stream_call' = [stream_call EXCEPT
              !.blocks = done, !.cur = NoBlock,
              !.content = Append(@, TextEntry(stream_call.text)),
              !.text = <<>>]
    /\ StreamFrame

\* the stream ends: final_message = ConversationMessage(role=ASSISTANT,
\* content=message['content']) is yielded
StreamEnd ==
    /\ stream_call.pc = "open"
    /\ stream_call.cur = NoBlock
    /\ stream_call' = [stream_call EXCEPT
         !.pc = "done",
         !.final_message = Message(ASSISTANT, stream_call.content # <<>>),
         !.final_content = stream_call.content]
    /\ StreamFrame

NextStream ==
    \/ MessageStart
    \/ \E id \in ToolUseIds, name \in BuiltInTools : ContentBlockStart(id, name)
    \/ \E frag \in InputDeltas : ToolUseDelta(frag)
    \/ \E frag \in TextDeltas : TextDelta(frag)
    \/ ContentBlockStop
    \/ StreamEnd

\* ========================================================================
\* SupervisorAgent.process_request: the memory digest (agents_memory)
\* ========================================================================

\* self.id of the supervisor, and the agents whose turns a session holds
SupervisorId == "supervisor"
Owners == {SupervisorId, "a", "c"}

\* the text of a turn: which turn it is, and whether it contains the
\* supervisor's id as a substring
Text(n, names_supervisor) == [n |-> n, names_supervisor |-> names_supervisor]

\* a turn of the session: its role, the agent whose key holds it, its text
Turn(role, owner, text) == [role |-> role, owner |-> owner, text |-> text]

\* f'{msg.role}:{msg.content[0].get('text', '')}\n'
Line(msg) == <<msg.role, ":", msg.text, "\n">>

\* self.id not in asst_msg.content[0].get('text', '')
KeptInMemory(asst_msg) == ~asst_msg.text.names_supervisor

\* ''.join(... for user_msg, asst_msg in zip(agents_history[::2],
\* agents_history[1::2]) if self.id not in asst_msg text), from pair i on
RECURSIVE AgentsMemory(_, _)
AgentsMemory(agents_history, i) ==
    IF 2 * i > Len(agents_history) THEN <<>>
    ELSE LET user_msg == agents_history[2 * i - 1]
             asst_msg == agents_history[2 * i] IN
         (IF KeptInMemory(asst_msg)
          THEN <<Line(user_msg), Line(asst_msg)>> ELSE <<>>)
         \o AgentsMemory(agents_history, i + 1)

\* fetch_all(user, session): the messages of the session, across all its
\* agents, in the order they were appended
FetchAll(history) == history

NoPromptCall == [pc |-> "idle", history |-> <<>>, agents_memory |-> <<>>]

PromptIdle == prompt_call = NoPromptCall

PromptFrame ==
    /\ UNCHANGED <<storage_calls, agent_call, tool_round, stream_call, overlap,
                   chain_call>>
    /\ UNCHANGED <<storeVars, orchVars, supVars, setupVars, loopVars>>

\* a user turn and the assistant turn answering it are appended under the
\* key of one agent (route_request for the supervisor, send_message for a
\* team member)
SavePair(owner, names_supervisor) ==
    /\ prompt_call.pc = "idle"
    /\ Len(prompt_call.history) + 2 <= MaxTurns
    /\ LET n == Len(prompt_call.history) IN
       prompt_call' = [prompt_call EXCEPT !.history =
         @ \o <<Turn(USER, owner, Text(n + 1, FALSE)),
                Turn(ASSISTANT, owner, Text(n + 2, names_supervisor))>>]
    /\ PromptFrame

\* a user turn is appended and the save of its assistant turn fails
SaveUserOnly(owner) ==
    /\ prompt_call.pc = "idle"
    /\ Len(prompt_call.history) + 1 <= MaxTurns
    /\ LET n == Len(prompt_call.history) IN
       prompt_call' = [prompt_call EXCEPT !.history =
         Append(@, Turn(USER, owner, Text(n + 1, FALSE)))]
    /\ PromptFrame

\* process_request: agents_history = fetch_all_chats(user_id, session_id),
\* agents_memory is computed and substituted into the prompt template
BuildAgentsMemory ==
    /\ prompt_call.pc = "idle"
    /\ prompt_call' = [prompt_call EXCEPT
         !.pc = "done",
         !.agents_memory = AgentsMemory(FetchAll(prompt_call.history), 1)]
    /\ PromptFrame

NextPrompt ==
    \/ \E owner \in Owners, names \in BOOLEAN : SavePair(owner, names)
    \/ \E owner \in Owners : SaveUserOnly(owner)
    \/ BuildAgentsMemory

\* ========================================================================
\* SupervisorAgent: two process_request calls in flight on one instance
\* ========================================================================

\* the two calls, as coroutines of one event loop
Coroutines == {1, 2}

\* one call: its arguments, its position, the number of send_messages it has
\* made, the arguments its latest sub-dispatch was created with and the keys
\* its sub-dispatches fetched and saved under
IdleCoroutine ==
    [pc |-> "idle", user_id |-> "", session_id |-> "", rounds |-> 0,
     task |-> <<>>, keys |-> {}]

OverlapInit ==
    overlap = [user_id |-> "", session_id |-> "",
               calls |-> [c \in Coroutines |-> IdleCoroutine]]

OverlapFrame ==
    /\ UNCHANGED <<storage_calls, agent_call, tool_round, stream_call,
                   prompt_call, chain_call>>
    /\ UNCHANGED <<storeVars, orchVars, supVars, setupVars, loopVars>>

\* process_request(input_text, user_id, session_id, ...): self.user_id =
\* user_id; self.session_id = session_id; the call then awaits the store
\* and the underlying agent
OverlapProcessRequest(c, user_id, session_id) ==
    /\ overlap.calls[c].pc = "idle"
    /\ overlap' = [overlap EXCEPT
         !.user_id = user_id, !.session_id = session_id,
         !.calls[c] = [@ EXCEPT !.pc = "model", !.user_id = user_id,
                                !.session_id = session_id]]
    /\ OverlapFrame

\* send_messages: the task of a matching member is created with
\* self.user_id and self.session_id as they are at that moment
OverlapSendMessages(c, member) ==
    /\ overlap.calls[c].pc = "model"
    /\ overlap.calls[c].rounds < MaxSupRounds
    /\ overlap' = [overlap EXCEPT !.calls[c] = [@ EXCEPT
         !.pc = "gather", !.rounds = @ + 1,
         !.task = <<overlap.user_id, overlap.session_id, MemberId(member)>>]]
    /\ OverlapFrame

\* send_message(agent, content, user_id, session_id, {}): fetch_chat and both
\* save_chat_message calls use the arguments the task was created with;
\* gather returns and the underlying agent goes on
OverlapSendMessage(c) ==
    /\ overlap.calls[c].pc = "gather"
    /\ overlap' = [overlap EXCEPT !.calls[c] = [@ EXCEPT
         !.pc = "model", !.keys = @ \cup {overlap.calls[c].task}]]
    /\ OverlapFrame

\* the underlying agent answers without a tool request: the call returns
OverlapReturns(c) ==
    /\ overlap.calls[c].pc = "model"
    /\ overlap' = [overlap EXCEPT !.calls[c] = [@ EXCEPT !.pc = "done"]]
    /\ OverlapFrame

NextOverlap ==
    \/ \E c \in Coroutines, u \in Users, s \in Sessions :
         OverlapProcessRequest(c, u, s)
    \/ \E c \in Coroutines, m \in {"A", "C"} : OverlapSendMessages(c, m)
    \/ \E c \in Coroutines : OverlapSendMessage(c)
    \/ \E c \in Coroutines : OverlapReturns(c)

\* ========================================================================
\* ChainAgent: construction and process_request, one agent of the chain at
\* a time
\* ========================================================================

\* texts: <<i, n>> is the text of block n of agent i's answer
DefaultOutput == <<0, 0>>
InputText == <<0, 1>>
NoText == <<0, 2>>

\* content blocks and what an agent of the chain may give back
TextBlock(t) == [kind |-> "text", text |-> t]
ToolUseBlock == [kind |-> "toolUse", text |-> NoText]
ChainReply(kind, content) == [kind |-> kind, content |-> content]

\* agent i answers with a message (one text block, two text blocks, a first
\* block that is no text, no block at all), with a stream, with None, or
\* it raises
RepliesOf(i) ==
    {ChainReply("message", <<TextBlock(<<i, 1>>)>>),
     ChainReply("message", <<TextBlock(<<i, 1>>), TextBlock(<<i, 2>>)>>),
     ChainReply("message", <<ToolUseBlock, TextBlock(<<i, 2>>)>>),
     ChainReply("message", <<>>),
     ChainReply("stream", <<>>),
     ChainReply("invalid", <<>>),
     ChainReply("raise", <<>>)}

\* the agents lists a ChainAgentOptions may be given, the empty one included
AgentLists ==
    UNION {{f \in [1..n -> UNION {RepliesOf(i) : i \in 1..n}] :
              \A i \in 1..n : f[i] \in RepliesOf(i)} : n \in 0..MaxChain}

\* ChainAgent.create_default_response
DefaultResponse == ChainReply("message", <<TextBlock(DefaultOutput)>>)

\* response.content and 'text' in response.content[0]
HasText(response) ==
    response.content # <<>> /\ response.content[1].kind = "text"

\* (mutant) an intermediate agent may answer with a stream
EndsChainStreamsAllowed(response, is_last_agent) ==
    \/ response.kind \in {"raise", "invalid"}
    \/ response.kind = "message" /\ ~HasText(response)

\* the cases in which the loop body returns create_default_response()
EndsChain(response, is_last_agent) ==
    \/ response.kind \in {"raise", "invalid"}
    \/ response.kind = "message" /\ ~HasText(response)
    \/ response.kind = "stream" /\ ~is_last_agent

\* (mutant) the next input is the text of the last content block
NextInputLastBlock(response, current_input) ==
    IF response.kind = "message"
    THEN response.content[Len(response.content)].text ELSE current_input

\* current_input = response.content[0]['text'] for a message
NextInput(response, current_input) ==
    IF response.kind = "message"
    THEN response.content[1].text ELSE current_input

\* one agent.process_request(current_input, ..., chat_history, ...) call
Invocation(i, input, history) ==
    [agent |-> i, input |-> input, history |-> history]

NoChainCall ==
    [pc |-> "idle", agents |-> <<>>, i |-> 0, chat_history |-> "none",
     current_input |-> NoText, final_response |-> ChainReply("unset", <<>>),
     invoked |-> <<>>, result |-> ChainReply("unset", <<>>)]

ChainIdle == chain_call = NoChainCall

ChainFrame ==
    /\ UNCHANGED <<storage_calls, agent_call, tool_round, stream_call,
                   prompt_call, overlap>>
    /\ UNCHANGED <<storeVars, orchVars, supVars, setupVars, loopVars>>

\* ChainAgentOptions(agents=...) / ChainAgent(options): ValueError for an
\* empty list
ChainAgentInit(chain) ==
    /\ chain_call.pc = "idle"
    /\ chain_call' = [chain_call EXCEPT
         !.pc = IF Len(chain) = 0 THEN "ValueError" ELSE "built",
         !.agents = IF Len(chain) = 0 THEN <<>> ELSE chain]
    /\ ChainFrame

\* process_request(input_text, user_id, session_id, chat_history, ...):
\* current_input = input_text
ChainEnter(chat_history) ==
    /\ chain_call.pc = "built"
    /\ chain_call' = [chain_call EXCEPT
         !.pc = "loop", !.i = 1, !.chat_history = chat_history,
         !.current_input = InputText]
    /\ ChainFrame

\* one pass of the for loop: agent i is called with current_input and the
\* chat history, its response decides between the default response and the
\* next agent
ChainInvoke ==
    /\ chain_call.pc = "loop"
    /\ chain_call.i <= Len(chain_call.agents)
    /\ LET i == chain_call.i
           response == chain_call.agents[i]
           is_last_agent == i = Len(chain_call.agents)
           called == Append(chain_call.invoked,
                            Invocation(i, chain_call.current_input,
                                       chain_call.chat_history)) IN
       IF EndsChain(response, is_last_agent)
       THEN chain_call' = [chain_call EXCEPT
              !.pc = "done", !.invoked = called, !.result = DefaultResponse]
       ELSE chain_call' = [chain_call EXCEPT
              !.invoked = called, !.i = i + 1,
              !.current_input = NextInput(response, chain_call.current_input),
              !.final_response = response]
    /\ ChainFrame

\* the loop is over: return final_response
ChainReturn ==
    /\ chain_call.pc = "loop"
    /\ chain_call.i > Len(chain_call.agents)
    /\ chain_call' = [chain_call EXCEPT
         !.pc = "done", !.result = chain_call.final_response]
    /\ ChainFrame

NextChain ==
    \/ \E chain \in AgentLists : ChainAgentInit(chain)
    \/ \E h \in {"h1", "h2"} : ChainEnter(h)
    \/ ChainInvoke
    \/ ChainReturn

\* the single objects as the other components leave them
UnitOff == StorageIdle /\ AgentsIdle /\ ToolsIdle /\ StreamIdle
           /\ PromptIdle /\ OverlapInit /\ ChainIdle

LoopOff == LoopIdle /\ agent_streaming = FALSE /\ tool_config = NoToolConfig

InitSup == StoreInit /\ OrchOff /\ SupInit /\ LoopOff /\ SetupOff /\ UnitOff

SpecSup == InitSup /\ [][NextSup]_vars

Init == StoreInit /\ OrchInit /\ SupInit /\ LoopOff /\ SetupOff /\ UnitOff

Spec == Init /\ [][Next]_vars

InitSetup == StoreInit /\ OrchOff /\ SupInit /\ LoopOff /\ SetupInit /\ UnitOff

SpecSetup == InitSetup /\ [][NextSetup]_vars

NextLoop ==
    \/ ProcessRequest
    \/ ModelRound
    \/ ModelRaises
    \/ ToolRound
    \/ ToolRaises
    \/ LoopExit

InitLoop == LoopInit /\ StoreInit /\ OrchOff /\ SupInit /\ SetupOff /\ UnitOff

SpecLoop == InitLoop /\ [][NextLoop]_vars

InitUnit == StoreInit /\ OrchOff /\ SupInit /\ LoopOff /\ SetupOff /\ UnitOff

SpecStorage == InitUnit /\ [][NextStorage]_vars

SpecAgents == InitUnit /\ [][NextAgents]_vars

SpecTools == InitUnit /\ [][NextTools]_vars

SpecStream == InitUnit /\ [][NextStream]_vars

SpecPrompt == InitUnit /\ [][NextPrompt]_vars

SpecOverlap == InitUnit /\ [][NextOverlap]_vars

SpecChain == InitUnit /\ [][NextChain]_vars

\* ------------------------------------------------------------------------
\* Properties of the tool-recursion loop
\* ------------------------------------------------------------------------
Budget == GetMaxRecursions(tool_config)

Replies(conv) == SelectSeq(conv, LAMBDA m : m.kind = "reply")

AllRepliesUseTools == \A i \in 1..Len(conversation) :
    conversation[i].kind = "reply" => conversation[i].toolUse

\* C1: with a model that requests a tool in every reply and a budget B >= 1,
\* the loop (single-response and streaming) makes exactly B model calls and
\* then returns the B-th reply; it never makes more than B model calls.
C1_ToolRecursionTermination ==
    /\ (loop_pc # "idle" /\ Budget >= 1) => Len(sent) <= Budget
    /\ (loop_pc = "done" /\ Budget >= 1 /\ AllRepliesUseTools) =>
          /\ Len(sent) = Budget
          /\ Len(Replies(conversation)) = Budget
          /\ loop_result = Reply(Budget, TRUE)
          /\ agent_streaming => stream_out[Len(stream_out)] = FinalChunk(Budget)

C1_Witness ==
    /\ loop_pc = "done" /\ Budget >= 2 /\ AllRepliesUseTools
    /\ agent_streaming
    /\ Len(sent) = Budget /\ loop_result = Reply(Budget, TRUE)

\* C2: if the k-th reply (k <= B) is the first one without a ToolUse block,
\* the loop makes exactly k model calls, runs the tool handler exactly k-1
\* times (on replies 1..k-1), decrements the budget once per round and
\* returns the k-th reply.
C2_FirstToolFreeReplyEndsLoop ==
    /\ (loop_pc = "loop" /\ Budget >= 1) => max_recursions = Budget - Len(sent)
    /\ (loop_pc = "done" /\ Budget >= 1 /\ llm_response.kind = "reply"
          /\ ~llm_response.toolUse) =>
          LET k == llm_response.n IN
          /\ k <= Budget
          /\ Len(sent) = k
          /\ tool_runs = [i \in 1..(k - 1) |-> Reply(i, TRUE)]
          /\ max_recursions = Budget - k
          /\ loop_result = Reply(k, FALSE)

C2_Witness ==
    /\ loop_pc = "done" /\ ~llm_response.toolUse
    /\ llm_response.n = 2 /\ Budget > 2
    /\ Len(tool_runs) = 1 /\ loop_result = Reply(2, FALSE)

\* ------------------------------------------------------------------------
\* Properties of route_request
\* ------------------------------------------------------------------------
Answered(r) == rq[r].pc = "returned"

\* the messages call r has appended under any key
AppendedBy(r, role) ==
    {k \in Keys : \E i \in 1..Len(appended[k]) :
                    appended[k][i] = Msg(role, "route", r)}

\* C3: when the classifier raises, route_request returns (does not raise) the
\* envelope with output CLASSIFICATION_ERROR_MESSAGE, agent_id
\* "no_agent_selected" and error_type = classification_failed; no agent is
\* invoked and nothing is appended to the store.
C3_ClassifierFailureAbsorbed ==
    \A r \in Reqs :
      (rq[r].classified = "raise" /\ rq[r].pc # "closed") =>
        /\ Answered(r)
        /\ rq[r].output = CLASSIFICATION_ERROR_MESSAGE
        /\ rq[r].agent_id = NO_AGENT_SELECTED
        /\ rq[r].error_type
        /\ rq[r].dispatched = <<>>
        /\ rq[r].saves = <<>>
        /\ AppendedBy(r, USER) = {} /\ AppendedBy(r, ASSISTANT) = {}

C3_Witness ==
    \E r \in Reqs :
      /\ Answered(r) /\ rq[r].classified = "raise"
      /\ rq[r].output = CLASSIFICATION_ERROR_MESSAGE
      /\ \E k \in Keys : store[k] # <<>>

\* C4: when the selected agent's process_request raises, route_request
\* returns the general routing error with the selected agent's id and name in
\* the metadata, and no assistant turn of that request is persisted.
C4_DispatchFailureAbsorbed ==
    \A r \in Reqs :
      (rq[r].result = "raise" /\ rq[r].pc # "closed") =>
        /\ Answered(r)
        /\ rq[r].output = GENERAL_ROUTING_ERROR_MSG_MESSAGE
        /\ rq[r].selected \in AgentIds
        /\ rq[r].agent_id = rq[r].selected
        /\ rq[r].agent_name = AgentName(rq[r].selected)
        /\ \A i \in 1..Len(rq[r].saves) : rq[r].saves[i].role # ASSISTANT
        /\ AppendedBy(r, ASSISTANT) = {}

C4_Witness ==
    \E r \in Reqs :
      /\ Answered(r) /\ rq[r].result = "raise"
      /\ rq[r].selected = "tech" /\ rq[r].agent_name = "Tech"
      /\ rq[r].output = GENERAL_ROUTING_ERROR_MSG_MESSAGE

\* C5: when the classifier selects no agent and the fallback is enabled, the
\* agent dispatched to is the default agent current at that moment (after
\* any set_default_agent calls), with a classifier result of confidence 0,
\* and the metadata's agent_id is that agent's id, never empty and never
\* "no_agent_selected".
C5_FallbackState ==
    \A r \in Reqs :
      (rq[r].classified = "abstain" /\ use_default /\ rq[r].pc # "closed") =>
        /\ rq[r].selected \in AgentIds
        /\ rq[r].dispatched = <<[agent |-> rq[r].selected, confidence |-> 0]>>
        /\ Answered(r) =>
             /\ rq[r].agent_id = rq[r].selected
             /\ rq[r].agent_id # ""
             /\ rq[r].agent_id # NO_AGENT_SELECTED

C5_FallbackStep ==
    \A r \in Reqs :
      (rq[r].pc = "idle" /\ rq'[r].classified = "abstain" /\ use_default) =>
        /\ rq'[r].pc = "processing"
        /\ rq'[r].selected = default_agent

C6_NoAgentNoFallback ==
    \A r \in Reqs :
      (rq[r].classified = "abstain" /\ ~use_default /\ rq[r].pc # "closed") =>
        /\ Answered(r)
        /\ rq[r].output = NO_SELECTED_AGENT_MESSAGE
        /\ rq[r].dispatched = <<>>
        /\ rq[r].saves = <<>>
        /\ AppendedBy(r, USER) = {} /\ AppendedBy(r, ASSISTANT) = {}

C6_Witness ==
    \E r \in Reqs :
      /\ Answered(r) /\ rq[r].classified = "abstain" /\ ~use_default
      /\ rq[r].output = NO_SELECTED_AGENT_MESSAGE

\* position of message m in seq, 0 if absent
Position(seq, m) ==
    IF \E i \in 1..Len(seq) : seq[i] = m
    THEN CHOOSE i \in 1..Len(seq) : seq[i] = m
    ELSE 0

\* C7: on a successful dispatch the user turn is appended and then, only for
\* a complete ConversationMessage, the assistant turn, both under the
\* selected agent's (user, session, agent id) key and in that order; with
\* save_chat false neither turn is appended.
C7_TurnsPersistedOnSuccess ==
    \A r \in Reqs :
      (Answered(r) /\ rq[r].output = "agent_response") =>
        LET a == rq[r].selected
            k == <<"u1", rq[r].session, a>>
            u == Msg(USER, "route", r)
            m == Msg(ASSISTANT, "route", r) IN
        /\ a \in AgentIds
        /\ rq[r].saves =
             IF ~AgentSaveChat(a) THEN <<>>
             ELSE IF rq[r].result = "message"
             THEN <<SaveCall(k, USER, TRUE), SaveCall(k, ASSISTANT, TRUE)>>
             ELSE <<SaveCall(k, USER, TRUE)>>
        /\ AppendedBy(r, USER) = IF AgentSaveChat(a) THEN {k} ELSE {}
        /\ AppendedBy(r, ASSISTANT) =
             IF AgentSaveChat(a) /\ rq[r].result = "message" THEN {k} ELSE {}
        /\ (AgentSaveChat(a) /\ rq[r].result = "message") =>
             Position(appended[k], u) < Position(appended[k], m)

C7_Witness ==
    \E r \in Reqs :
      /\ Answered(r) /\ rq[r].output = "agent_response"
      /\ rq[r].result = "message" /\ Len(rq[r].saves) = 2
      /\ rq[r].session = "s2"
      /\ store[<<"u1", "s2", "tech">>] =
           <<Msg(USER, "route", r), Msg(ASSISTANT, "route", r)>>

\* no route_request call is between its entry and its return
Quiescent == \A r \in Reqs : rq[r].pc \in {"idle", "returned", "closed"}

\* seq is USER, ASSISTANT, USER, ASSISTANT, ...: whole pairs only
AlternatesInPairs(seq) ==
    /\ Len(seq) % 2 = 0
    /\ \A i \in 1..Len(seq) :
         seq[i].role = IF i % 2 = 1 THEN USER ELSE ASSISTANT

\* C8: whenever no call is in progress, the stored sequence of every
\* (user, session, agent) key alternates USER, ASSISTANT in whole pairs:
\* it starts with a USER turn, has even length and never has two
\* consecutive turns of the same role.
C8_StoreAlternatesInPairs ==
    Quiescent => \A k \in Keys : AlternatesInPairs(store[k])

\* ---- properties of the store under the supervisor's sub-dispatches ----

\* s is what is left of a after dropping some of its oldest elements
IsSuffix(s, a) ==
    /\ Len(s) <= Len(a)
    /\ \A i \in 1..Len(s) : s[i] = a[Len(a) - Len(s) + i]

\* C9: in every reachable state every (user, session, agent) key holds at
\* most max_pairs pairs, whoever appended (the orchestrator's save_message
\* or a supervisor sub-dispatch), and what is retained is a suffix of what
\* was appended, cut at a pair boundary (only whole oldest pairs are dropped)
C9_AtMostMaxPairsPerKey ==
    \A k \in Keys :
      /\ PairCount(store[k]) <= MAX_MESSAGE_PAIRS_PER_AGENT
      /\ IsSuffix(store[k], appended[k])
      /\ (Len(appended[k]) - Len(store[k])) % 2 = 0

\* the sub-dispatch t has appended its user turn
TaskAppended(t) ==
    \E n \in 1..Len(appended[TaskKey(t)]) :
      appended[TaskKey(t)][n] = Msg(USER, "sub", t.id)

\* C10: when two tasks of one send_messages have appended to the same
\* (user, session, agent) key, no appended message is lost (the key holds a
\* suffix of everything appended, every message once) and the key does not
\* exceed max_pairs pairs
C10_ConcurrentAppendsAtomic ==
    \A c \in SupCalls : \A i, j \in 1..Len(tasks[c]) :
      (i < j /\ TaskKey(tasks[c][i]) = TaskKey(tasks[c][j])
             /\ TaskAppended(tasks[c][i]) /\ TaskAppended(tasks[c][j])) =>
        LET k == TaskKey(tasks[c][i]) IN
        /\ IsSuffix(store[k], appended[k])
        /\ PairCount(store[k]) <= MAX_MESSAGE_PAIRS_PER_AGENT

\* the part of C10 that the store itself guarantees: in every interleaving
\* of two tasks on one key nothing appended is lost
C10_NoLostAppend ==
    \A c \in SupCalls : \A i, j \in 1..Len(tasks[c]) :
      (i < j /\ TaskKey(tasks[c][i]) = TaskKey(tasks[c][j])
             /\ TaskAppended(tasks[c][i]) /\ TaskAppended(tasks[c][j])) =>
        store[TaskKey(tasks[c][i])] = appended[TaskKey(tasks[c][i])]

\* ---- properties of the send_messages fan-out ----

\* position of a member in the team declaration
TeamPosition(name) == CHOOSE i \in 1..Len(Team) : Team[i] = name

\* the (member position, entry) pairs of a messages argument that match
MatchingPairs(entries) ==
    {p \in (1..Len(Team)) \X (1..Len(entries)) : Team[p[1]] = entries[p[2]]}

\* send_messages of call c has returned its joined responses
SendMessagesReturned(c) == sup[c].pc = "model" /\ sup[c].result # <<>>

\* C11: whatever the completion order of the sub-dispatches, the string
\* send_messages returns joins one response per matched (member, entry)
\* pair, ordered by the member's position in the team declaration (and by
\* entry for one member), never by completion
C11_JoinedInTeamOrder ==
    \A c \in SupCalls :
      SendMessagesReturned(c) =>
        LET res == sup[c].result IN
        /\ Len(res) = Cardinality(MatchingPairs(sup[c].entries))
        /\ \A i \in 1..Len(res) : sup[c].entries[res[i].entry] = res[i].agent
        /\ \A i, j \in 1..Len(res) :
             i < j =>
               \/ TeamPosition(res[i].agent) < TeamPosition(res[j].agent)
               \/ /\ res[i].agent = res[j].agent
                  /\ res[i].entry < res[j].entry

C11_Witness ==
    \E c \in SupCalls :
      /\ SendMessagesReturned(c)
      /\ sup[c].entries = <<"A", "A">>
      /\ sup[c].first = 2
      /\ sup[c].result = <<[agent |-> "A", entry |-> 1],
                           [agent |-> "A", entry |-> 2]>>

\* C12 as stated: with the team declared A, B, C and entries
\* addressing C and then A, the joined result lists C's response before A's
C12_EntryOrderCThenA ==
    \A c \in SupCalls :
      (SendMessagesReturned(c) /\ sup[c].entries = <<"C", "A">>) =>
        sup[c].result = <<[agent |-> "C", entry |-> 1],
                          [agent |-> "A", entry |-> 2]>>

\* C12 amended: with entries addressing C and then A the joined result
\* lists A's response before C's (the team declaration order), whichever
\* sub-dispatch completes first
C12_TeamOrderAThenC ==
    \A c \in SupCalls :
      (SendMessagesReturned(c) /\ sup[c].entries = <<"C", "A">>) =>
        sup[c].result = <<[agent |-> "A", entry |-> 2],
                          [agent |-> "C", entry |-> 1]>>

C12_Witness ==
    \E c \in SupCalls :
      /\ SendMessagesReturned(c)
      /\ sup[c].entries = <<"C", "A">>
      /\ sup[c].first = 2
      /\ sup[c].result[1].agent = "A"

\* C13: the parent call goes on (with a result or with an error) only when
\* every sub-dispatch it started has completed or failed
C13_ParentWaitsForAll ==
    \A c \in SupCalls :
      sup[c].pc # "gather" =>
        \A i \in 1..Len(tasks[c]) : ~InFlight(tasks[c][i])

\* C14: while send_messages awaits, there is exactly one sub-dispatch for
\* each (member, entry) pair whose recipient is the member's name and no
\* other; an entry naming no member starts nothing, and when nothing
\* matches no task exists and the result is empty
C14_OneDispatchPerMatch ==
    \A c \in SupCalls :
      /\ sup[c].pc = "gather" =>
           /\ \A p \in MatchingPairs(sup[c].entries) :
                Cardinality({i \in 1..Len(tasks[c]) :
                               /\ tasks[c][i].agent = Team[p[1]]
                               /\ tasks[c][i].entry = p[2]}) = 1
           /\ Len(tasks[c]) = Cardinality(MatchingPairs(sup[c].entries))
      /\ (sup[c].pc = "model" /\ sup[c].entries # <<>>
            /\ MatchingPairs(sup[c].entries) = {}) =>
           tasks[c] = <<>> /\ sup[c].result = <<>>

\* two sub-dispatches to the same member, one per entry,
\* both in flight at once
C14_Witness ==
    \E c \in SupCalls :
      /\ sup[c].pc = "gather"
      /\ sup[c].entries = <<"A", "A">>
      /\ Len(tasks[c]) = 2
      /\ tasks[c][1].pc = "save_user" /\ tasks[c][2].pc = "save_user"

\* the turns sub-dispatches have appended under a member's keys
MemberTurns(name) ==
    {k \in Keys : k[3] = MemberId(name) /\ appended[k] # <<>>}

\* C15: a sub-dispatch appends its user and assistant turn under the
\* member's key if and only if the member's save_chat is true: nothing is
\* ever stored for a member with save_chat false, and a completed
\* sub-dispatch to a member with save_chat true has stored both turns
C15_PersistsIffSaveChat ==
    /\ \A m \in 1..Len(Team) :
         ~MemberSaveChat(Team[m]) => MemberTurns(Team[m]) = {}
    /\ \A c \in SupCalls : \A i \in 1..Len(tasks[c]) :
         (tasks[c][i].pc = "done" /\ MemberSaveChat(tasks[c][i].agent)) =>
           \E n \in 1..Len(appended[TaskKey(tasks[c][i])]) :
             appended[TaskKey(tasks[c][i])][n] =
               Msg(ASSISTANT, "sub", tasks[c][i].id)

\* C17: a failure of an individual tool call (a sub-dispatch of
\* send_messages) does not abort the supervisor's request: no call has
\* raised with the error of a tool call
C17_ToolErrorAbsorbed ==
    \A c \in SupCalls : sup[c].pc = "raised" => sup[c].error # "tool"

\* ---- properties of the configuration calls ----

\* the step is a call of op
CallStep(op) == setup'.calls # setup.calls /\ setup'.op = op

\* C16: constructing a supervisor over an agent whose tool_config is set
\* (by the user, or by an earlier supervisor construction over that agent)
\* raises at once: no supervisor comes to exist, the agent is left as it
\* was, nothing is dispatched and nothing is stored
C16_SetToolConfigStep ==
    (/\ CallStep("SupervisorAgent")
     /\ setup'.target \in Leads
     /\ lead_tool_config[setup'.target] # "unset") =>
      /\ setup'.outcome = "RuntimeError"
      /\ built' = built
      /\ lead_tool_config' = lead_tool_config
      /\ UNCHANGED <<supVars, storeVars>>

C16_ConstructionOverSetToolConfigFails == [][C16_SetToolConfigStep]_vars

\* a second construction over L1 has raised, the first one having succeeded
C16_Witness ==
    /\ setup.op = "SupervisorAgent" /\ setup.target = "L1"
    /\ setup.outcome = "RuntimeError"
    /\ "L1" \in built
    /\ lead_tool_config["L1"] = "supervisor"

\* C18: when a save_message call fails after the selected agent has
\* produced its response, route_request still returns the agent's response
C18_SaveFailureKeepsResponse ==
    \A r \in Reqs :
      (/\ Answered(r)
       /\ rq[r].result \in {"message", "stream"}
       /\ \E i \in 1..Len(rq[r].saves) : ~rq[r].saves[i].ok) =>
        rq[r].output = "agent_response"

\* C19: every registry key is the id of the agent stored under it (so no
\* two registered agents share an id), and add_agent with an agent whose id
\* is registered raises and leaves the registry as it was
C19_KeysAreIds ==
    \A id \in DOMAIN agents : GenerateKeyFromName(agents[id]) = id

C19_DuplicateStep ==
    (CallStep("add_agent")
       /\ GenerateKeyFromName(setup'.agent) \in DOMAIN agents) =>
      /\ setup'.outcome = "ValueError"
      /\ agents' = agents

C19_AddAgentRejectsDuplicateId == [](C19_KeysAreIds) /\ [][C19_DuplicateStep]_vars

\* "TECH" has been rejected because "Tech" holds the id tech
C19_Witness ==
    /\ setup.op = "add_agent" /\ setup.outcome = "ValueError"
    /\ setup.agent = <<"T", "E", "C", "H">>
    /\ <<"t", "e", "c", "h">> \in DOMAIN agents
    /\ agents[<<"t", "e", "c", "h">>] = <<"T", "e", "c", "h">>

\* C20: after any sequence of add_agent and set_classifier calls none of
\* which raised, the candidates of the classifier in use are the registry
C20_ClassifierSeesRegistry ==
    (setup.clean /\ classifier # "none") =>
      classifier_agents[classifier] = agents

\* ---- properties of InMemoryChatStorage ----

\* the saves on key k among the first n calls
SavesBefore(k, n) ==
    SelectSeq(SubSeq(storage_calls, 1, n),
              LAMBDA c : c.op = "save" /\ c.key = k)

\* C21: a fetch that immediately follows two sequential appends to its key
\* (the only appends to that key, max_pairs at least 1) returns exactly those
\* two messages in append order; a fetch on a key never appended to returns
\* the empty sequence
C21_FetchAfterTwoAppends ==
    \A i \in 1..Len(storage_calls) :
      storage_calls[i].op = "fetch" =>
        LET k == storage_calls[i].key
            saved == SavesBefore(k, i - 1) IN
        /\ saved = <<>> => storage_calls[i].result = <<>>
        /\ (/\ i >= 3
            /\ Len(saved) = 2
            /\ storage_calls[i - 2] = saved[1]
            /\ storage_calls[i - 1] = saved[2]
            /\ saved[1].maxp >= 1 /\ saved[2].maxp >= 1) =>
             storage_calls[i].result = <<saved[1].msg, saved[2].msg>>

\* ---- properties of the supervisor's tool handler ----

\* the tool calls the handler makes on a reply: the supervisor-mode handler
\* returns after the first toolUse block, the movie-production one goes
\* through all of them
ToolCalls(round) ==
    LET uses == ToolUses(round.content, 1) IN
    IF round.handler = "supervisor-mode" /\ uses # <<>> THEN <<uses[1]>> ELSE uses

\* C22: a tool call naming a tool outside the built-in table does not
\* raise: its result is an error text naming the unknown tool, wrapped as
\* the ToolResult of that call; the handler raises only for an empty reply
\* or a failing send_messages
C22_UnknownToolIsErrorString ==
    LET calls == ToolCalls(tool_round)
        res == tool_round.result IN
    /\ res.kind = "raise" =>
         \/ tool_round.content = <<>>
         \/ /\ tool_round.fails
            /\ \E n \in 1..Len(calls) :
                 tool_round.content[calls[n]] = "send_messages"
    /\ res.kind = "message" =>
         \A n \in 1..Len(calls) :
           tool_round.content[calls[n]] \notin BuiltInTools =>
             /\ n <= Len(res.content)
             /\ res.content[n] =
                  ToolResult(calls[n],
                             ToolOutcome("error", tool_round.content[calls[n]]))

\* an unknown tool was called after a built-in one and both have a result
C22_Witness ==
    /\ tool_round.handler = "movie-production"
    /\ tool_round.content = <<"get_current_date", "lookup">>
    /\ tool_round.result.kind = "message"
    /\ tool_round.result.content[2] = ToolResult(2, ToolOutcome("error", "lookup"))

\* C28: for a reply with one or more ToolUse blocks (none of whose tools
\* fails) the handler returns one USER-role message with exactly one
\* ToolResult per ToolUse block, carrying the id of its block, in block order
C28_OneToolResultPerToolUse ==
    LET uses == ToolUses(tool_round.content, 1)
        res == tool_round.result IN
    (tool_round.handler # "none" /\ uses # <<>> /\ ~tool_round.fails) =>
      /\ res.kind = "message"
      /\ res.role = USER
      /\ Len(res.content) = Len(uses)
      /\ \A n \in 1..Len(uses) : res.content[n].toolUseId = uses[n]

\* ---- properties of the agent classes ----

\* C23: in BedrockLLMAgent, SupervisorAgent and ChainAgent, whenever a model
\* call or a wrapped agent raises inside process_request, the call raises
C23_FaultsPropagate ==
    (/\ agent_call.class \in {"BedrockLLMAgent", "SupervisorAgent", "ChainAgent"}
     /\ agent_call.fault) =>
      agent_call.result = Raised

\* C24: for every agent class, a process_request call that does not raise
\* ends with a ConversationMessage of role ASSISTANT (for a stream: its
\* final message)
C24_TerminalRoleAssistant ==
    (agent_call.class # "none" /\ agent_call.result # Raised) =>
      /\ agent_call.result.kind \in {"message", "stream"}
      /\ agent_call.result.role = ASSISTANT

\* ---- properties of the stream ----

\* the positions of the chunks that carry a final message
FinalChunks == {j \in 1..Len(stream_out) : stream_out[j].final}

\* C25: a fully consumed stream of a call that made at least one model call
\* holds exactly one chunk with a final message, and it is the last one
C25_OneFinalMessageLast ==
    (loop_pc = "done" /\ agent_streaming /\ Len(sent) >= 1) =>
      /\ Cardinality(FinalChunks) = 1
      /\ FinalChunks = {Len(stream_out)}

\* ---- further properties of the configuration calls ----

\* C26: every supervisor that has been constructed has a non-empty team
C26_TeamNotEmpty == \A l \in built : built_team[l] # <<>>

Digits == {"2", "3", "4"}

\* the slug of a name: lowercased, every character that is neither a letter
\* nor a digit turned into a hyphen
Slug(name) ==
    [i \in 1..Len(name) |->
       IF name[i] \in Letters \cup Digits THEN Lower(name[i]) ELSE "-"]

\* C27: the id of every registered agent is the slug of its name, and no
\* name with another slug has the id of a registered agent
C27_IdIsSlugOfName ==
    /\ \A id \in DOMAIN agents : id = Slug(agents[id])
    /\ \A id \in DOMAIN agents : \A b \in AgentNames :
         Slug(b) # Slug(agents[id]) => GenerateKeyFromName(b) # id

\* ---- further properties of the tool-recursion loop ----

\* position of the new user message in the running conversation
UserPos == CHOOSE i \in 1..Len(conversation) : conversation[i].kind = "user"

\* number of model replies in the running conversation
ReplyCount == (Len(conversation) - UserPos + 1) \div 2

\* the reply of round i
ReplyOf(i) == conversation[UserPos + 2 * i - 1]

\* the running conversation is the history, the user message, and then for
\* each round its model reply followed by its tool result, in round order
InRoundOrder ==
    \A i \in 1..Len(conversation) :
      IF i < UserPos THEN conversation[i] = HistMsg(i)
      ELSE IF i = UserPos THEN conversation[i] = UserMsg
      ELSE IF (i - UserPos) % 2 = 1
      THEN /\ conversation[i].kind = "reply"
           /\ conversation[i].n = (i - UserPos + 1) \div 2
      ELSE conversation[i] = ToolResponse((i - UserPos) \div 2)

\* C29: the messages of the j-th model call are the running conversation
\* after j-1 rounds: the history, the user message, then reply and tool
\* result of each completed round in round order; a call about to be made
\* carries the whole conversation; every earlier request is still the start
\* of the conversation, which is never cut or reordered
C29_RequestIsRunningConversation ==
    loop_pc # "idle" =>
      /\ InRoundOrder
      /\ \A j \in 1..Len(sent) :
           /\ UserPos + 2 * (j - 1) <= Len(conversation)
           /\ sent[j] = SubSeq(conversation, 1, UserPos + 2 * (j - 1))
      /\ (loop_pc = "loop" /\ continue_with_tools) => command = conversation

\* the third model call of a call with history is about to be made
C29_Witness ==
    /\ loop_pc = "loop" /\ continue_with_tools /\ max_recursions > 0
    /\ Len(sent) = 2 /\ UserPos = 2
    /\ Len(command) = 6
    /\ command[6] = ToolResponse(2)

C31_FinalMessageMirrorsBlocks ==
    stream_call.pc = "done" =>
      /\ Len(stream_call.final_content) = Len(stream_call.blocks)
      /\ \A k \in 1..Len(stream_call.blocks) :
           LET b == stream_call.blocks[k]
               e == stream_call.final_content[k] IN
           IF b.kind = "toolUse"
           THEN /\ e.kind = "toolUse"
                /\ e.value["toolUseId"] = b.id
                /\ e.value["name"] = b.name
                /\ b.deltas > 0 => e.value["input"] = JsonLoads(b.joined)
           ELSE e = TextEntry(b.joined)

\* the digest the session's turns call for: every (user turn, assistant
\* turn) pair of an agent other than the supervisor, in append order
RECURSIVE PairsOfTeam(_, _)
PairsOfTeam(history, i) ==
    IF i >= Len(history) THEN <<>>
    ELSE IF /\ history[i].role = USER
            /\ history[i + 1].role = ASSISTANT
            /\ history[i + 1].owner = history[i].owner
         THEN (IF history[i].owner # SupervisorId
               THEN <<Line(history[i]), Line(history[i + 1])>> ELSE <<>>)
              \o PairsOfTeam(history, i + 2)
         ELSE PairsOfTeam(history, i + 1)

\* ------------------------------------------------------------------------
\* C32: the memory digest substituted into the supervisor's system prompt
\* is exactly the (user turn, assistant turn) pairs of the session in append
\* order without the supervisor's own pairs: no pair of a team member is
\* left out, no pair of the supervisor is included, whatever the turns say
\* and whether or not a key holds an unpaired turn.
C32_DigestIsTeamPairs ==
    prompt_call.pc = "done" =>
      prompt_call.agents_memory = PairsOfTeam(prompt_call.history, 1)

\* ------------------------------------------------------------------------
\* C33: every sub-dispatch started by send_messages fetches and persists
\* under the user_id and session_id of the process_request call that
\* triggered it, in every interleaving of two calls on one supervisor.
C33_SubDispatchInOwnSession ==
    \A c \in Coroutines :
      LET call == overlap.calls[c] IN
      /\ call.pc = "gather" =>
           call.task[1] = call.user_id /\ call.task[2] = call.session_id
      /\ \A k \in call.keys : k[1] = call.user_id /\ k[2] = call.session_id

\* a tool result at position i of the conversation was part of a request
SentToModel(i) ==
    \E j \in 1..Len(sent) : Len(sent[j]) >= i /\ sent[j][i] = conversation[i]

IsToolResult(m) == m.kind = "toolResult"

\* ------------------------------------------------------------------------
\* C35 as stated: when the tool loop has exited, every tool-result message
\* appended to the running conversation has been sent to the model in a later
\* model call, the one of the round in which the budget reaches zero included.
C35_ToolResultsReachModel ==
    loop_pc = "done" =>
      \A i \in 1..Len(conversation) :
        IsToolResult(conversation[i]) => SentToModel(i)

\* C35 amended: when the tool loop has exited, every tool-result message
\* appended to the running conversation has been sent to the model in a later
\* model call, except the one appended in the round in which the budget
\* reached zero: that one is the last message of the conversation and the
\* loop returns the tool-requesting reply before it.
C35_ToolResultsReachModelWithinBudget ==
    loop_pc = "done" =>
      \A i \in 1..Len(conversation) :
        IsToolResult(conversation[i]) =>
          \/ SentToModel(i)
          \/ /\ i = Len(conversation)
             /\ max_recursions = 0
             /\ loop_result = conversation[i - 1]
             /\ loop_result.toolUse

C35_Witness ==
    /\ loop_pc = "done"
    /\ max_recursions = 0
    /\ Len(tool_runs) = 2
    /\ IsToolResult(conversation[Len(conversation)])
    /\ ~SentToModel(Len(conversation))
    /\ SentToModel(Len(conversation) - 2)

\* the classification of request r failed or selected no agent
ClassificationFailed(r) ==
    \/ rq[r].classified = "raise"
    \/ rq[r].classified = "abstain" /\ rq[r].selected = NoAgent

\* ------------------------------------------------------------------------
\* C34: route_request never writes to the additional_params mapping it was
\* given (the caller's or the shared default), and the metadata of a request
\* carries error_type only if that request's own classification failed or
\* selected no agent: a request whose agent was selected and answered has
\* no error_type.
C34_ParamsReadOnlyAndTagOwn ==
    \A r \in Reqs :
      Answered(r) =>
        /\ ~rq[r].params_written
        /\ rq[r].error_type => ClassificationFailed(r)

\* ------------------------------------------------------------------------
\* C36: a route_request call that ends in a classification failure, in
\* no-agent-selected or in a dispatch failure (the selected agent's
\* process_request raised) has appended nothing to the store: no user turn
\* and no assistant turn of that call is under any key.
C36_FailedCallLeavesStore ==
    \A r \in Reqs :
      (Answered(r) /\ (ClassificationFailed(r) \/ rq[r].result = "raise")) =>
        /\ rq[r].saves = <<>>
        /\ AppendedBy(r, USER) = {}
        /\ AppendedBy(r, ASSISTANT) = {}

C36_Witness ==
    /\ Answered(2) /\ rq[2].result = "raise"
    /\ rq[2].output = GENERAL_ROUTING_ERROR_MSG_MESSAGE
    /\ store[RequestKey(2)] = <<Msg(USER, "route", 1), Msg(ASSISTANT, "route", 1)>>

\* ------------------------------------------------------------------------
\* C37: the streaming flag of the envelope route_request returns is true
\* exactly when the envelope's output is a lazy stream; it is false for a
\* ConversationMessage and for the fixed error texts.
C37_StreamingFlagTellsStream ==
    \A r \in Reqs :
      Answered(r) =>
        (rq[r].streaming <=>
           (rq[r].output = "agent_response" /\ rq[r].result = "stream"))

\* agent i of the chain raises, answers without text or with an invalid
\* type, or answers with a stream without being the last one
EndsWith(chain, i) ==
    \/ chain[i].kind \in {"raise", "invalid"}
    \/ chain[i].kind = "message" /\
         (chain[i].content = <<>> \/ chain[i].content[1].kind # "text")
    \/ chain[i].kind = "stream" /\ i < Len(chain)

\* the first agent of the chain that ends it (0: none)
FirstEnding(chain) ==
    LET ending == {i \in 1..Len(chain) : EndsWith(chain, i)} IN
    IF ending = {} THEN 0 ELSE CHOOSE i \in ending : \A j \in ending : i <= j

\* ------------------------------------------------------------------------
\* C38: ChainAgent.process_request invokes its agents in list order, one at
\* a time; the first agent receives the original input, each later agent the
\* text of the first content block of the previous agent's message; every
\* agent receives the same chat history; when all agents answer with text
\* messages the result is the last agent's response.
C38_ChainPassesTextAlong ==
    LET c == chain_call IN
    /\ \A n \in 1..Len(c.invoked) :
         /\ c.invoked[n].agent = n
         /\ c.invoked[n].history = c.chat_history
         /\ c.invoked[n].input =
              IF n = 1 THEN InputText
              ELSE c.agents[n - 1].content[1].text
    /\ c.pc = "loop" => Len(c.invoked) = c.i - 1
    /\ (/\ c.pc = "done"
        /\ \A i \in 1..Len(c.agents) :
             c.agents[i].kind = "message" /\ HasText(c.agents[i])) =>
          /\ Len(c.invoked) = Len(c.agents)
          /\ c.result = c.agents[Len(c.agents)]

C38_Witness ==
    /\ chain_call.pc = "done"
    /\ Len(chain_call.agents) = 3
    /\ Len(chain_call.invoked) = 3
    /\ chain_call.invoked[3].input = <<2, 1>>
    /\ Len(chain_call.agents[2].content) = 2
    /\ chain_call.result = ChainReply("message", <<TextBlock(<<3, 1>>)>>)

\* ------------------------------------------------------------------------
\* C39: ChainAgent stops at the first agent that raises, returns a message
\* without text content, returns an invalid type or, not being the last
\* agent, returns a stream: the result is then the default output as a
\* message and no later agent is invoked; a ChainAgent over an empty agent
\* list cannot be constructed.
C39_ChainStopsAtFirstFailure ==
    LET c == chain_call
        k == FirstEnding(c.agents) IN
    /\ k > 0 => Len(c.invoked) <= k
    /\ (c.pc = "done" /\ k > 0) =>
         /\ Len(c.invoked) = k
         /\ c.result = DefaultResponse
    /\ c.pc \in {"built", "loop", "done"} => Len(c.agents) > 0
    /\ c.pc = "ValueError" => c.invoked = <<>>

C39_Witness ==
    /\ chain_call.pc = "done"
    /\ Len(chain_call.agents) = 3
    /\ chain_call.agents[2].kind = "stream"
    /\ Len(chain_call.invoked) = 2
    /\ chain_call.result = DefaultResponse

====
